---- MODULE Spec2Model ----
(***************************************************************************)
(* Drawing & measurement state machine of the map annotation application  *)
(* (src/src/App.tsx): the drawing session driven by toolbar buttons and    *)
(* map clicks, the layer store, the drag-translate handlers and the        *)
(* focus-on-layer viewport fitter.                                         *)
(*                                                                         *)
(* Numbers.  Coordinates are fixed-point integers, DegScale units per      *)
(* degree.  Angles are fixed-point integers, AngScale units per radian.    *)
(* Math.sqrt / Math.sin / Math.cos / Math.atan2 are computed in that       *)
(* fixed-point arithmetic (floor rounding), all intermediate values stay   *)
(* below 2^31.                                                             *)
(***************************************************************************)
EXTENDS Integers, Sequences, FiniteSets, TLC

\* ------------------------------------------------------------------ bounds
\* map clicks in one behaviour (caps clickCount)
MaxClicks == 4
\* drag move events in one behaviour (caps dragCount)
MaxDrags == 2
\* the highest signal-to-noise ratio of a feed node (SpecSignal)
MaxSnr == 22

\* the most connected ids a feed node lists (SpecLinks)
MaxLinks == 2

\* map clicks in a run that also receives the feed (SpecMix)
MaxMixClicks == 2

\* layer list commands in a run (SpecStore)
MaxCommands == 1

\* folders the operator adds in a run (SpecStore)
MaxFolders == 1

\* drag move events in a run that also draws (SpecDrag)
MaxRingDrags == 1

\* ------------------------------------------------------- program constants
\* arc subdivisions of createSectorPolygon (numPoints)
NumPoints == 32
\* initial viewState.zoom
InitialZoom == 5
\* zoom clamp of the viewport
MinZoom == 1
MaxZoom == 20

\* ------------------------------------------------------ fixed-point scales
\* coordinate units per degree
DegScale == 10000
\* angle units per radian, and the scale of Sin / Cos results
AngScale == 10000
\* Math.PI in angle units
Pi == 31416
HalfPi == Pi \div 2
TwoPi == 2 * Pi

\* INDIA_CENTER = [78.9629, 20.5937] in coordinate units
INDIA_CENTER == <<789629, 205937>>

\* the absent value of a nullable field (null / undefined)
Null == <<>>

Abs(x) == IF x < 0 THEN 0 - x ELSE x
Min2(a, b) == IF a < b THEN a ELSE b
Max2(a, b) == IF a > b THEN a ELSE b

\* ------------------------------------------------------------ Math helpers
RECURSIVE SqrtSearch(_, _, _)
\* largest r in lo..hi with r*r <= n
SqrtSearch(n, lo, hi) ==
  IF lo >= hi THEN lo
  ELSE LET mid == (lo + hi + 1) \div 2
       IN IF mid * mid <= n THEN SqrtSearch(n, mid, hi)
          ELSE SqrtSearch(n, lo, mid - 1)

\* Math.sqrt on a non-negative integer (floor); 0 only for n = 0
Sqrt(n) == SqrtSearch(n, 0, 46340)

\* Math.sin on [0, pi/2], Taylor polynomial to x^7 in Horner form
SinQ(x) ==
  LET t == (x * x) \div AngScale
      a == AngScale - (t \div 42)
      b == AngScale - ((t * a) \div (20 * AngScale))
      c == AngScale - ((t * b) \div (6 * AngScale))
  IN (x * c) \div AngScale

\* Math.sin, result scaled by AngScale
Sin(x) ==
  LET m == x % TwoPi
  IN IF m <= HalfPi THEN SinQ(m)
     ELSE IF m <= Pi THEN SinQ(Pi - m)
     ELSE IF m <= Pi + HalfPi THEN 0 - SinQ(m - Pi)
     ELSE 0 - SinQ(TwoPi - m)

\* Math.cos, result scaled by AngScale
Cos(x) == Sin(x + HalfPi)

RECURSIVE AtanSearch(_, _, _, _)
\* largest angle th in lo..hi (first quadrant) with tan(th) <= ay / ax
AtanSearch(ay, ax, lo, hi) ==
  IF lo >= hi THEN lo
  ELSE LET mid == (lo + hi + 1) \div 2
       IN IF Sin(mid) * ax <= Cos(mid) * ay THEN AtanSearch(ay, ax, mid, hi)
          ELSE AtanSearch(ay, ax, lo, mid - 1)

\* Math.atan2(dy, dx) in (-pi, pi]; atan2(0, 0) = 0 and atan2(0, dx > 0) = 0,
\* and the result is non-zero whenever dy is non-zero
Atan2(dy, dx) ==
  IF dy = 0 THEN (IF dx >= 0 THEN 0 ELSE Pi)
  ELSE IF dx = 0 THEN (IF dy > 0 THEN HalfPi ELSE 0 - HalfPi)
  ELSE LET th == Max2(1, AtanSearch(Abs(dy), Abs(dx), 0, HalfPi))
       IN IF dx > 0 THEN (IF dy > 0 THEN th ELSE 0 - th)
          ELSE (IF dy > 0 THEN Pi - th ELSE th - Pi)

\* Math.sqrt(dx^2 + dy^2) between two coordinates, in coordinate units
PlanarDistance(p, q) ==
  Sqrt((p[1] - q[1]) * (p[1] - q[1]) + (p[2] - q[2]) * (p[2] - q[2]))

\* --------------------------------------------------------------- the state
VARIABLES
  layers,             \* useState<Layer[]>: the layer store, in order
  drawMode,           \* active drawing mode
  drawingPoints,      \* vertices accumulated by polygon/line/distance/area/azimuth
  sectorCenter,       \* Null or a coordinate
  sectorRadius,       \* 0 until set (0 is the code's "unset")
  sectorStartAngle,   \* 0 until set (0 is the code's "unset")
  mousePosition,      \* Null or the last pointer coordinate
  hoveredPoint,       \* Null or the highlighted first vertex
  isDragging,         \* drag gesture flag
  draggedLayerId,     \* Null or the id of the dragged layer
  dragStartPosition,  \* Null or the coordinate of the drag start
  originalLayerData,  \* Null or <<deep copy of the dragged layer's data>>
  viewState,          \* [longitude, latitude, zoom, pitch, bearing]
  layerIdCounter,     \* useRef counter of generateLayerId
  clickZoom,          \* viewState.zoom captured by the memoized handleMapClick
  gesture,            \* history: what happened since the last toolbar press
  clickCount,         \* history: map clicks so far
  dragCount,          \* history: drag move events so far
  tooltipInfo,        \* Null or [layer, coordinate]: the tooltip on display
  isRubberBandZooming,\* rubber-band selection flag
  rubberBandStart,    \* Null or the first corner of the selection
  rubberBandEnd,      \* Null or the moving corner of the selection
  socketData,         \* useSocket data: the `nodes` of the last parsed message
  isConnected,        \* useSocket isConnected
  readyState,         \* WebSocket readyState: "connecting", "open" or "closed"
  networkLayerState,  \* [visible, radius, pointDisplayMode, iconType]
  feedLost,           \* history: the socket closed or failed since the last payload
  customFolders,      \* useState<string[]>: the folders the operator added
  commandCount,       \* history: layer list commands so far
  mapStyle,           \* the style of the base map
  collapsedSections,  \* the panel sections that are folded
  folderNames,        \* the labels of the built-in folders
  storage,            \* localStorage "mapPreferences": Null or the saved entry
  saveTimer           \* Null or <<viewState seen by the pending debounced save>>

sessionVars == <<drawMode, drawingPoints, sectorCenter, sectorRadius, sectorStartAngle>>
hoverVars == <<mousePosition, hoveredPoint>>
dragVars == <<isDragging, draggedLayerId, dragStartPosition, originalLayerData>>
bandVars == <<isRubberBandZooming, rubberBandStart, rubberBandEnd>>
socketVars == <<socketData, isConnected, readyState, feedLost>>
overlayVars == <<tooltipInfo, bandVars, socketVars, networkLayerState>>
prefVars == <<mapStyle, collapsedSections, folderNames>>
vars == <<layers, sessionVars, hoverVars, dragVars, viewState, layerIdCounter,
          clickZoom, gesture, clickCount, dragCount, overlayVars, customFolders,
          commandCount, prefVars, storage, saveTimer>>

\* coordinates a pointer event can report: A, a point 0.01 degree east of A
\* (inside the closing tolerance at zoom 5), and a far point
Coords == { <<0, 0>>, <<100, 0>>, <<10000, 10000>> }

\* modes the toolbar offers (the azimuth button is commented out in the source)
ToolbarModes == {"point", "polygon", "line", "sector", "distance", "area"}
TwoPointModes == {"line", "distance", "azimuth"}
RingModes == {"polygon", "area"}

\* a number that may be absent or not finite: a finite value, and NaN
Fin(x) == [v |-> x]
NaN == [nan |-> TRUE]

\* Date.now() of the running session (ids of layers loaded from a file carry
\* an earlier time)
SessionTime == 1

\* `layer-${layerIdCounter.current++}-${Date.now()}`
generateLayerId == [n |-> layerIdCounter, t |-> SessionTime]

\* a feed value as JavaScript sees it: null, undefined, an array of node
\* records, or some other (non-array) JSON value
JsNull == [kind |-> "null", items |-> <<>>]
JsUndefined == [kind |-> "undefined", items |-> <<>>]
JsObject == [kind |-> "object", items |-> <<>>]
JsArray(items) == [kind |-> "array", items |-> items]
\* the outcome of an expression that throws instead of giving a value
JsThrows == [kind |-> "throws", items |-> <<>>]

\* useState initial value of networkLayerState
DefaultNetworkLayerState ==
  [visible |-> TRUE, radius |-> 15, pointDisplayMode |-> "icon", iconType |-> "marker"]

\* the session holds no part of a gesture
SessionReset ==
  /\ drawingPoints = <<>>
  /\ sectorCenter = Null
  /\ sectorRadius = 0
  /\ sectorStartAngle = 0

\* the history variable after a toolbar press / cancel / fresh start: the mode
\* the press selected, whether the session was reset at that moment, and the
\* map clicks and the layers committed since
NewGesture(mode, clean) ==
  [mode |-> mode, clean |-> clean, clicks |-> <<>>, commits |-> <<>>]

\* the history variable after a map click at c that committed `committed`
\* (a sequence of zero or one layers)
LogClick(c, committed) ==
  [gesture EXCEPT !.clicks = Append(@, c), !.commits = @ \o committed]

\* an absent string-valued field (JavaScript undefined)
Undefined == "undefined"

\* a Layer object with every optional field absent
BaseLayer(id, name, type, data, color, icon) ==
  [id |-> id, name |-> name, type |-> type, data |-> data, color |-> color,
   icon |-> icon, visible |-> TRUE, radius |-> Null, pointDisplayMode |-> Undefined,
   iconType |-> Undefined, folder |-> Undefined, measurement |-> Null,
   isUploaded |-> FALSE]

\* useState initial values of mapStyle, collapsedSections and folderNames
DefaultMapStyle == "mapbox://styles/mapbox/satellite-v9"

DefaultCollapsedSections ==
  [untitled |-> FALSE, drawn |-> FALSE, uploaded |-> FALSE, tools |-> FALSE,
   network |-> FALSE]

DefaultFolderNames ==
  [untitled |-> "Untitled", drawn |-> "Drawn", uploaded |-> "Uploaded", tools |-> "Tools"]

\* the effect on [layers, folderNames, collapsedSections, mapStyle]: when one of
\* them is set, the pending save is cleared and a new one is scheduled, which
\* sees the viewState of that render.  A layer command always sets layers.
SaveEffect ==
  saveTimer' = IF layers' # layers \/ commandCount' # commandCount \/ prefVars' # prefVars
               THEN <<viewState'>> ELSE saveTimer

Init ==
  /\ layers = <<>>
  /\ drawMode = "none"
  /\ drawingPoints = <<>>
  /\ sectorCenter = Null
  /\ sectorRadius = 0
  /\ sectorStartAngle = 0
  /\ mousePosition = Null
  /\ hoveredPoint = Null
  /\ isDragging = FALSE
  /\ draggedLayerId = Null
  /\ dragStartPosition = Null
  /\ originalLayerData = Null
  /\ viewState = [longitude |-> Fin(INDIA_CENTER[1]), latitude |-> Fin(INDIA_CENTER[2]),
                  zoom |-> InitialZoom, pitch |-> 0, bearing |-> 0]
  /\ layerIdCounter = 0
  /\ clickZoom = InitialZoom
  /\ gesture = NewGesture("none", TRUE)
  /\ clickCount = 0
  /\ dragCount = 0
  /\ tooltipInfo = Null
  /\ isRubberBandZooming = FALSE
  /\ rubberBandStart = Null
  /\ rubberBandEnd = Null
  /\ socketData = JsNull
  /\ isConnected = FALSE
  /\ readyState = "connecting"
  /\ networkLayerState = DefaultNetworkLayerState
  /\ feedLost = FALSE
  /\ customFolders = <<>>
  /\ commandCount = 0
  /\ mapStyle = DefaultMapStyle
  /\ collapsedSections = DefaultCollapsedSections
  /\ folderNames = DefaultFolderNames
  /\ storage = Null
  /\ saveTimer = <<viewState>>

\* ------------------------------------------------------- toolbar and cancel
\* a draw-mode button: setDrawMode(drawMode === m ? "none" : m), nothing else
ToolbarButton(m) ==
  /\ UNCHANGED <<customFolders, commandCount>>
  /\ UNCHANGED overlayVars
  /\ drawMode' = IF drawMode = m THEN "none" ELSE m
  /\ clickZoom' = viewState.zoom
  /\ gesture' = NewGesture(IF drawMode = m THEN "none" ELSE m, SessionReset)
  /\ UNCHANGED <<layers, drawingPoints, sectorCenter, sectorRadius, sectorStartAngle,
                 hoverVars, dragVars, viewState, layerIdCounter, clickCount, dragCount>>
  /\ UNCHANGED <<prefVars, storage>>
  /\ SaveEffect

\* the "Cancel drawing" button is rendered only while a gesture is partly built
CancelVisible ==
  \/ drawMode \in {"polygon", "line", "distance", "area", "azimuth"} /\ Len(drawingPoints) > 0
  \/ drawMode = "sector" /\ (sectorCenter # Null \/ sectorRadius > 0)

CancelDrawing ==
  /\ UNCHANGED <<customFolders, commandCount>>
  /\ UNCHANGED overlayVars
  /\ CancelVisible
  /\ drawingPoints' = <<>>
  /\ sectorCenter' = Null
  /\ sectorRadius' = 0
  /\ sectorStartAngle' = 0
  /\ mousePosition' = Null
  /\ drawMode' = "none"
  /\ clickZoom' = viewState.zoom
  /\ gesture' = NewGesture("none", TRUE)
  /\ UNCHANGED <<layers, hoveredPoint, dragVars, viewState, layerIdCounter, clickCount,
                 dragCount>>
  /\ UNCHANGED <<prefVars, storage>>
  /\ SaveEffect

\* ------------------------------------------------------------- geometry
RECURSIVE NormalizeEnd(_, _)
\* while (normalizedEndAngle <= startAngle) normalizedEndAngle += 2 * Math.PI
NormalizeEnd(endAngle, startAngle) ==
  IF endAngle <= startAngle THEN NormalizeEnd(endAngle + TwoPi, startAngle) ELSE endAngle

\* createSectorPolygon: [center, arc point 0, ..., arc point numPoints]
\* a variant of createSectorPolygon whose ring is the arc alone
createSectorPolygonArcOnly(center, radius, startAngle, endAngle) ==
  LET normalizedEndAngle == NormalizeEnd(endAngle, startAngle)
      angle(i) == startAngle + ((normalizedEndAngle - startAngle) * i) \div NumPoints
      arc(i) == << center[1] + (radius * Cos(angle(i))) \div AngScale,
                   center[2] + (radius * Sin(angle(i))) \div AngScale >>
  IN [i \in 1..(NumPoints + 1) |-> arc(i - 1)]

\* points = [center], then numPoints + 1 arc points from startAngle to the
\* normalized endAngle; the ring is returned as built, without a closing copy
createSectorPolygon(center, radius, startAngle, endAngle) ==
  LET normalizedEndAngle == NormalizeEnd(endAngle, startAngle)
      angle(i) == startAngle + ((normalizedEndAngle - startAngle) * i) \div NumPoints
      arc(i) == << center[1] + (radius * Cos(angle(i))) \div AngScale,
                   center[2] + (radius * Sin(angle(i))) \div AngScale >>
  IN <<center>> \o [i \in 1..(NumPoints + 1) |-> arc(i - 1)]

\* 2 * tolerance in coordinate units, tolerance = 0.05 * max(0.1, 1 / 2^(zoom - 5))
Tolerance2(zoom) ==
  LET \* 2 * 0.05 * 2^(5 - zoom) degrees
      raw == IF zoom <= 5 THEN (DegScale \div 10) * (2 ^ (5 - zoom))
             ELSE (DegScale \div 10) \div (2 ^ (zoom - 5))
      \* 2 * 0.05 * 0.1 degrees
      least == DegScale \div 100
  IN Max2(least, raw)

\* distanceInDegrees < tolerance, compared as squares
WithinTolerance(coordinate, firstPoint, zoom) ==
  LET dx == coordinate[1] - firstPoint[1]
      dy == coordinate[2] - firstPoint[2]
  IN 4 * (dx * dx + dy * dy) < Tolerance2(zoom) * Tolerance2(zoom)

\* a variant of ClosedPoints that leaves the ring open
ClosedPointsOpen(newPoints) == newPoints

\* const closedPoints = [...newPoints, newPoints[0]]
ClosedPoints(newPoints) == Append(newPoints, newPoints[1])

\* a formatted measurement string: the kernel function, its numeric arguments
\* (flattened) and the unit suffix.  calculateDistance / calculatePolygonArea /
\* calculateAzimuth are kept as applications to their arguments.
Measurement(fn, args, unit) == [fn |-> fn, args |-> args, unit |-> unit]

RECURSIVE Flatten(_)
\* the numbers of a sequence of coordinates, in order
Flatten(points) ==
  IF points = <<>> THEN <<>> ELSE <<points[1][1], points[1][2]>> \o Flatten(Tail(points))

\* |(endAngle - sectorStartAngle) * 180 / Math.PI|.toFixed(1), in tenths of a degree
SectorDegrees(endAngle, startAngle) ==
  (Abs(endAngle - startAngle) * 3600 + Pi) \div (2 * Pi)

\* ------------------------------------------------------- the layers drawn
PointLayer(coordinate) ==
  [BaseLayer(generateLayerId, <<"Point", Len(layers) + 1>>, "point",
             <<[position |-> coordinate]>>, "#ff0000", "mdi:map-marker")
     EXCEPT !.radius = Fin(12), !.pointDisplayMode = "circle",
            !.iconType = "marker", !.folder = "drawn"]

PolygonLayer(closedPoints) ==
  [BaseLayer(generateLayerId, <<"Polygon", Len(layers) + 1>>, "polygon",
             <<[polygon |-> closedPoints]>>, "#00ff00", "mdi:vector-square")
     EXCEPT !.folder = "drawn"]

AreaLayer(closedPoints) ==
  [BaseLayer(generateLayerId, <<"Area", Len(layers) + 1>>, "area",
             <<[polygon |-> closedPoints]>>, "#00ffff", "mdi:vector-square")
     EXCEPT !.measurement =
       Measurement("calculatePolygonArea", Flatten(closedPoints), "km2")]

LineLayer(newPoints) ==
  [BaseLayer(generateLayerId, <<"Line", Len(layers) + 1>>, "line",
             <<[path |-> newPoints]>>, "#ff0000", "mdi:vector-line")
     EXCEPT !.folder = "drawn"]

\* a variant of DistanceLayer that stores no measurement
DistanceLayerUnmeasured(newPoints) ==
  BaseLayer(generateLayerId, <<"Distance", Len(layers) + 1>>, "distance",
            <<[path |-> newPoints]>>, "#0000ff", "mdi:ruler")

DistanceLayer(newPoints) ==
  [BaseLayer(generateLayerId, <<"Distance", Len(layers) + 1>>, "distance",
             <<[path |-> newPoints]>>, "#0000ff", "mdi:ruler")
     EXCEPT !.measurement = Measurement("calculateDistance", Flatten(newPoints), "km")]

AzimuthLayer(newPoints) ==
  [BaseLayer(generateLayerId, <<"Azimuth", Len(layers) + 1>>, "azimuth",
             <<[path |-> newPoints]>>, "#ff00ff", "mdi:compass")
     EXCEPT !.measurement = Measurement("calculateAzimuth", Flatten(newPoints), "deg")]

SectorLayer(sectorPolygon, endAngle) ==
  [BaseLayer(generateLayerId, <<"Sector", Len(layers) + 1>>, "sector",
             <<[polygon |-> sectorPolygon]>>, "#ff8800", "mdi:pie-chart")
     EXCEPT !.measurement =
       Measurement("degrees", <<SectorDegrees(endAngle, sectorStartAngle)>>, "deg")]

\* ------------------------------------------------------------ handleMapClick
\* setLayers((prev) => [...prev, newLayer]) with a freshly generated id
Commit(newLayer) ==
  /\ layers' = Append(layers, newLayer)
  /\ layerIdCounter' = layerIdCounter + 1

\* a variant of ClickPoint that also clears the vertices under construction
ClickPointClearsVertices(coordinate) ==
  /\ Commit(PointLayer(coordinate))
  /\ drawMode' = "none"
  /\ drawingPoints' = <<>>
  /\ clickZoom' = viewState.zoom
  /\ gesture' = LogClick(coordinate, <<PointLayer(coordinate)>>)
  /\ UNCHANGED <<sectorCenter, sectorRadius, sectorStartAngle>>

\* drawMode === "point"
ClickPoint(coordinate) ==
  /\ Commit(PointLayer(coordinate))
  /\ drawMode' = "none"
  /\ clickZoom' = viewState.zoom
  /\ gesture' = LogClick(coordinate, <<PointLayer(coordinate)>>)
  /\ UNCHANGED <<drawingPoints, sectorCenter, sectorRadius, sectorStartAngle>>

\* a variant of ClickRing that closes the ring when the first vertex is highlighted
ClickRingByHighlight(coordinate, kind) ==
  LET newPoints == Append(drawingPoints, coordinate)
      closedPoints == ClosedPoints(newPoints)
      newLayer == IF kind = "polygon" THEN PolygonLayer(closedPoints)
                  ELSE AreaLayer(closedPoints)
  IN IF /\ Len(drawingPoints) >= 2
        /\ hoveredPoint # Null
     THEN /\ Commit(newLayer)
          /\ drawingPoints' = <<>>
          /\ drawMode' = "none"
          /\ clickZoom' = viewState.zoom
          /\ gesture' = LogClick(coordinate, <<newLayer>>)
          /\ UNCHANGED <<sectorCenter, sectorRadius, sectorStartAngle>>
     ELSE /\ drawingPoints' = newPoints
          /\ clickZoom' = viewState.zoom
          /\ gesture' = LogClick(coordinate, <<>>)
          /\ UNCHANGED <<layers, layerIdCounter, drawMode, sectorCenter, sectorRadius,
                         sectorStartAngle>>

\* drawMode === "polygon" and drawMode === "area" (the same steps, another layer)
ClickRing(coordinate, kind) ==
  LET newPoints == Append(drawingPoints, coordinate)
      closedPoints == ClosedPoints(newPoints)
      newLayer == IF kind = "polygon" THEN PolygonLayer(closedPoints)
                  ELSE AreaLayer(closedPoints)
  IN IF /\ Len(drawingPoints) >= 2
        /\ WithinTolerance(coordinate, drawingPoints[1], clickZoom)
     THEN /\ Commit(newLayer)
          /\ drawingPoints' = <<>>
          /\ drawMode' = "none"
          /\ clickZoom' = viewState.zoom
          /\ gesture' = LogClick(coordinate, <<newLayer>>)
          /\ UNCHANGED <<sectorCenter, sectorRadius, sectorStartAngle>>
     ELSE /\ drawingPoints' = newPoints
          /\ clickZoom' = viewState.zoom
          /\ gesture' = LogClick(coordinate, <<>>)
          /\ UNCHANGED <<layers, layerIdCounter, drawMode, sectorCenter, sectorRadius,
                         sectorStartAngle>>

\* a variant of ClickTwoPoint that stays in its mode after the commit
ClickTwoPointStaysArmed(coordinate, kind) ==
  LET newPoints == Append(drawingPoints, coordinate)
      newLayer == IF kind = "line" THEN LineLayer(newPoints)
                  ELSE IF kind = "distance" THEN DistanceLayer(newPoints)
                  ELSE AzimuthLayer(newPoints)
  IN IF Len(newPoints) = 2
     THEN /\ Commit(newLayer)
          /\ drawingPoints' = <<>>
          /\ clickZoom' = viewState.zoom
          /\ gesture' = LogClick(coordinate, <<newLayer>>)
          /\ UNCHANGED <<drawMode, sectorCenter, sectorRadius, sectorStartAngle>>
     ELSE /\ drawingPoints' = newPoints
          /\ clickZoom' = viewState.zoom
          /\ gesture' = LogClick(coordinate, <<>>)
          /\ UNCHANGED <<layers, layerIdCounter, drawMode, sectorCenter, sectorRadius,
                         sectorStartAngle>>

\* drawMode === "line", "distance" and "azimuth" (the same steps, another layer)
ClickTwoPoint(coordinate, kind) ==
  LET newPoints == Append(drawingPoints, coordinate)
      newLayer == IF kind = "line" THEN LineLayer(newPoints)
                  ELSE IF kind = "distance" THEN DistanceLayer(newPoints)
                  ELSE AzimuthLayer(newPoints)
  IN IF Len(newPoints) = 2
     THEN /\ Commit(newLayer)
          /\ drawingPoints' = <<>>
          /\ drawMode' = "none"
          /\ clickZoom' = viewState.zoom
          /\ gesture' = LogClick(coordinate, <<newLayer>>)
          /\ UNCHANGED <<sectorCenter, sectorRadius, sectorStartAngle>>
     ELSE /\ drawingPoints' = newPoints
          /\ clickZoom' = viewState.zoom
          /\ gesture' = LogClick(coordinate, <<>>)
          /\ UNCHANGED <<layers, layerIdCounter, drawMode, sectorCenter, sectorRadius,
                         sectorStartAngle>>

\* drawMode === "sector"
ClickSector(coordinate) ==
  IF sectorCenter = Null
  THEN \* first click: set the center
       /\ sectorCenter' = coordinate
       /\ clickZoom' = viewState.zoom
       /\ gesture' = LogClick(coordinate, <<>>)
       /\ UNCHANGED <<layers, layerIdCounter, drawMode, drawingPoints, sectorRadius,
                      sectorStartAngle>>
  ELSE IF sectorRadius = 0
  THEN \* second click: set the radius
       /\ sectorRadius' = PlanarDistance(coordinate, sectorCenter)
       /\ clickZoom' = IF sectorRadius' = sectorRadius THEN clickZoom ELSE viewState.zoom
       /\ gesture' = LogClick(coordinate, <<>>)
       /\ UNCHANGED <<layers, layerIdCounter, drawMode, drawingPoints, sectorCenter,
                      sectorStartAngle>>
  ELSE IF sectorStartAngle = 0
  THEN \* third click: set the start angle
       /\ sectorStartAngle' = Atan2(coordinate[2] - sectorCenter[2],
                                    coordinate[1] - sectorCenter[1])
       /\ clickZoom' = IF sectorStartAngle' = sectorStartAngle THEN clickZoom
                       ELSE viewState.zoom
       /\ gesture' = LogClick(coordinate, <<>>)
       /\ UNCHANGED <<layers, layerIdCounter, drawMode, drawingPoints, sectorCenter,
                      sectorRadius>>
  ELSE \* fourth click: set the end angle and create the sector
       LET endAngle == Atan2(coordinate[2] - sectorCenter[2],
                             coordinate[1] - sectorCenter[1])
           sectorPolygon == createSectorPolygon(sectorCenter, sectorRadius,
                                                sectorStartAngle, endAngle)
           newLayer == SectorLayer(sectorPolygon, endAngle)
       IN /\ Commit(newLayer)
          /\ sectorCenter' = Null
          /\ sectorRadius' = 0
          /\ sectorStartAngle' = 0
          /\ drawMode' = "none"
          /\ clickZoom' = viewState.zoom
          /\ gesture' = LogClick(coordinate, <<newLayer>>)
          /\ UNCHANGED drawingPoints

\* DeckGL onClick: a map click at `coordinate`
HandleMapClick(coordinate) ==
  /\ UNCHANGED <<customFolders, commandCount>>
  /\ UNCHANGED overlayVars
  /\ clickCount < MaxClicks
  /\ clickCount' = clickCount + 1
  /\ IF drawMode = "none"
     THEN \* if (drawMode === "none") return
          /\ gesture' = LogClick(coordinate, <<>>)
          /\ UNCHANGED <<layers, layerIdCounter, sessionVars, clickZoom>>
     ELSE IF drawMode = "point" THEN ClickPoint(coordinate)
     ELSE IF drawMode \in RingModes THEN ClickRing(coordinate, drawMode)
     ELSE IF drawMode = "sector" THEN ClickSector(coordinate)
     ELSE ClickTwoPoint(coordinate, drawMode)
  /\ UNCHANGED <<hoverVars, dragVars, viewState, dragCount>>
  /\ UNCHANGED <<prefVars, storage>>
  /\ SaveEffect

\* ------------------------------------------------------------ the layer list
\* removeLayer(layers[i].id): filter by id
RemoveLayer(i) ==
  /\ UNCHANGED <<customFolders, commandCount>>
  /\ UNCHANGED overlayVars
  /\ i \in 1..Len(layers)
  /\ layers' = SelectSeq(layers, LAMBDA l : l.id # layers[i].id)
  /\ clickZoom' = viewState.zoom
  /\ UNCHANGED <<sessionVars, hoverVars, dragVars, viewState, layerIdCounter, gesture,
                 clickCount, dragCount>>
  /\ UNCHANGED <<prefVars, storage>>
  /\ SaveEffect

\* a variant of SetLayerField that writes the field of every layer
SetLayerFieldOfAll(layerId, field, value) ==
  [i \in 1..Len(layers) |-> [layers[i] EXCEPT ![field] = value]]

\* prev.map((layer) => layer.id === layerId ? { ...layer, [field]: value } : layer)
SetLayerField(layerId, field, value) ==
  [i \in 1..Len(layers) |->
     IF layers[i].id = layerId THEN [layers[i] EXCEPT ![field] = value] ELSE layers[i]]

\* setLayers(next) by a button of the layer list: nothing else is set, and
\* handleMapClick is memoized again because `layers` is a new array
SetLayers(next) ==
  /\ layers' = next
  /\ clickZoom' = viewState.zoom
  /\ commandCount' = commandCount + 1
  /\ UNCHANGED <<sessionVars, hoverVars, dragVars, viewState, layerIdCounter, gesture,
                 clickCount, dragCount, overlayVars, customFolders>>
  /\ UNCHANGED <<prefVars, storage>>
  /\ SaveEffect

\* toggleLayerVisibility(layerId)
ToggleLayerVisibility(layerId) ==
  SetLayers([i \in 1..Len(layers) |->
               IF layers[i].id = layerId
               THEN [layers[i] EXCEPT !.visible = ~@] ELSE layers[i]])

\* changeLayerColor(layerId, color)
ChangeLayerColor(layerId, color) == SetLayers(SetLayerField(layerId, "color", color))

\* changeLayerIcon(layerId, icon)
ChangeLayerIcon(layerId, icon) == SetLayers(SetLayerField(layerId, "icon", icon))

\* changeLayerRadius(layerId, radius)
ChangeLayerRadius(layerId, radius) == SetLayers(SetLayerField(layerId, "radius", radius))

\* changePointDisplayMode(layerId, mode)
ChangePointDisplayMode(layerId, mode) ==
  SetLayers(SetLayerField(layerId, "pointDisplayMode", mode))

\* changeIconType(layerId, iconType)
ChangeIconType(layerId, iconType) ==
  SetLayers(SetLayerField(layerId, "iconType", iconType))

\* changeLayerName(layerId, name)
ChangeLayerName(layerId, name) == SetLayers(SetLayerField(layerId, "name", name))

\* a variant of MoveLayerToFolder that makes the layer's origin follow its folder
MoveLayerToFolderSetsOrigin(layerId, folderName) ==
  SetLayers([i \in 1..Len(layers) |->
               IF layers[i].id = layerId
               THEN [layers[i] EXCEPT !.folder = folderName,
                                      !.isUploaded = (folderName = "uploaded")]
               ELSE layers[i]])

\* moveLayerToFolder(layerId, folderName)
MoveLayerToFolder(layerId, folderName) ==
  SetLayers(SetLayerField(layerId, "folder", folderName))

\* addCustomFolder with newFolderName = name (not blank)
AddCustomFolder(name) ==
  /\ customFolders' = Append(customFolders, name)
  /\ UNCHANGED <<layers, sessionVars, hoverVars, dragVars, viewState, layerIdCounter,
                 clickZoom, gesture, clickCount, dragCount, overlayVars, commandCount>>
  /\ UNCHANGED <<prefVars, storage>>
  /\ SaveEffect

\* removeCustomFolder(folderName), the button of a custom folder's header
RemoveCustomFolder(folderName) ==
  /\ \E k \in 1..Len(customFolders) : customFolders[k] = folderName
  /\ customFolders' = SelectSeq(customFolders, LAMBDA f : f # folderName)
  /\ layers' = [i \in 1..Len(layers) |->
                  IF layers[i].folder = folderName
                  THEN [layers[i] EXCEPT !.folder = "untitled"] ELSE layers[i]]
  /\ clickZoom' = viewState.zoom
  /\ commandCount' = commandCount + 1
  /\ UNCHANGED <<sessionVars, hoverVars, dragVars, viewState, layerIdCounter, gesture,
                 clickCount, dragCount, overlayVars>>
  /\ UNCHANGED <<prefVars, storage>>
  /\ SaveEffect

\* ------------------------------------------------------------ the importers
\* the layer an importer makes of a batch of one geometry kind, with the id
\* of the n-th generateLayerId call of the import
UploadedLayer(n, name, type, data, color, icon) ==
  [BaseLayer([generateLayerId EXCEPT !.n = @ + n], <<name, Len(layers) + 1>>, type,
             data, color, icon)
     EXCEPT !.isUploaded = TRUE, !.folder = "uploaded"]

\* the point layer of an import
UploadedPoints(n, name, points) ==
  [UploadedLayer(n, name, "point", points, "#ff0000", "mdi:map-marker")
     EXCEPT !.radius = Fin(12), !.pointDisplayMode = "circle", !.iconType = "marker"]

\* what an import appends to the layers and the ids it takes
Import(newLayers) ==
  /\ layers' = layers \o newLayers
  /\ layerIdCounter' = layerIdCounter + Len(newLayers)
  /\ clickZoom' = IF newLayers = <<>> THEN clickZoom ELSE viewState.zoom
  /\ UNCHANGED <<sessionVars, hoverVars, dragVars, viewState, gesture, clickCount,
                 dragCount, overlayVars, customFolders, commandCount>>
  /\ UNCHANGED <<prefVars, storage>>
  /\ SaveEffect

\* handleCSVUpload of a file with latitude and longitude columns whose rows
\* with two numbers are `points`
HandleCSVUpload(points) ==
  Import(IF Len(points) > 0 THEN <<UploadedPoints(0, "CSV Points", points)>> ELSE <<>>)

\* handleGeoJSONUpload of a feature collection whose Point, Polygon and
\* LineString features are the batch's points, polygons and lines
HandleGeoJSONUpload(batch) ==
  LET pointLayers ==
        IF Len(batch.points) > 0
        THEN <<UploadedPoints(0, "GeoJSON Points", batch.points)>> ELSE <<>>
      polygonLayers ==
        IF Len(batch.polygons) > 0
        THEN <<UploadedLayer(Len(pointLayers), "GeoJSON Polygons", "polygon",
                             batch.polygons, "#00ff00", "mdi:vector-polygon")>>
        ELSE <<>>
      lineLayers ==
        IF Len(batch.lines) > 0
        THEN <<UploadedLayer(Len(pointLayers) + Len(polygonLayers), "GeoJSON Lines",
                             "line", batch.lines, "#0000ff", "mdi:vector-line")>>
        ELSE <<>>
  IN Import(pointLayers \o polygonLayers \o lineLayers)

\* the rows a CSV file can hold: none with two numbers, one, or two
CSVPoints ==
  {<<>>, <<[position |-> <<0, 0>>]>>,
   <<[position |-> <<0, 0>>], [position |-> <<100, 0>>]>>}

\* feature collections: no feature of a known kind, one feature of every
\* kind, or polygons and lines only
GeoJSONBatches ==
  {batch \in
     [points : {<<>>, <<[position |-> <<100, 0>>]>>},
      polygons : {<<>>, <<[polygon |-> <<<<0, 0>>, <<100, 0>>, <<10000, 10000>>,
                                        <<0, 0>>>>]>>},
      lines : {<<>>, <<[path |-> <<<<0, 0>>, <<10000, 10000>>>>]>>}] :
     Len(batch.polygons) = Len(batch.lines)}

\* startFresh (after the confirm dialog): every piece of state back to its default
StartFresh ==
  /\ layers' = <<>>
  /\ viewState' = [longitude |-> Fin(INDIA_CENTER[1]), latitude |-> Fin(INDIA_CENTER[2]),
                   zoom |-> InitialZoom, pitch |-> 0, bearing |-> 0]
  /\ drawMode' = "none"
  /\ drawingPoints' = <<>>
  /\ sectorCenter' = Null
  /\ sectorRadius' = 0
  /\ sectorStartAngle' = 0
  /\ mousePosition' = Null
  /\ hoveredPoint' = Null
  /\ clickZoom' = viewState'.zoom
  /\ gesture' = NewGesture("none", TRUE)
  /\ networkLayerState' = DefaultNetworkLayerState
  /\ tooltipInfo' = Null
  /\ customFolders' = <<>>
  /\ mapStyle' = DefaultMapStyle
  /\ folderNames' = DefaultFolderNames
  /\ collapsedSections' = DefaultCollapsedSections
  /\ storage' = Null
  /\ UNCHANGED <<dragVars, layerIdCounter, clickCount, dragCount, bandVars, socketVars,
                 commandCount>>
  /\ SaveEffect

\* --------------------------------------------------------------- drag-translate
\* the id deck.gl reports for the rendered geometry of a layer: the layer id
\* followed by a style suffix (`${layer.id}-color-${layer.color}`, ...)
DeckLayerId(layer) == [base |-> layer.id, suffix |-> <<layer.type, layer.color>>]

\* layers.find((l) => l.id === layerId): the index of the first match, 0 if none
FindLayer(layerId) ==
  IF \E i \in 1..Len(layers) : layers[i].id = layerId
  THEN CHOOSE i \in 1..Len(layers) :
         /\ layers[i].id = layerId
         /\ \A j \in 1..(i - 1) : layers[j].id # layerId
  ELSE 0

\* a variant of HandleDragStart that accepts uploaded layers too
HandleDragStartAnyLayer(pickedId, coordinate) ==
  /\ UNCHANGED <<customFolders, commandCount>>
  /\ UNCHANGED overlayVars
  /\ IF drawMode = "none" /\ FindLayer(pickedId) # 0
     THEN /\ isDragging' = TRUE
          /\ draggedLayerId' = pickedId
          /\ dragStartPosition' = coordinate
          /\ originalLayerData' = <<layers[FindLayer(pickedId)].data>>
     ELSE UNCHANGED dragVars
  /\ UNCHANGED <<layers, sessionVars, hoverVars, viewState, layerIdCounter, clickZoom,
                 gesture, clickCount, dragCount>>
  /\ UNCHANGED <<prefVars, storage>>
  /\ SaveEffect

\* handleDragStart(info) with info.layer.id = pickedId, info.coordinate = coordinate
HandleDragStart(pickedId, coordinate) ==
  /\ UNCHANGED <<customFolders, commandCount>>
  /\ UNCHANGED overlayVars
  /\ IF drawMode = "none" /\ FindLayer(pickedId) # 0
        /\ ~layers[FindLayer(pickedId)].isUploaded
     THEN /\ isDragging' = TRUE
          /\ draggedLayerId' = pickedId
          /\ dragStartPosition' = coordinate
          /\ originalLayerData' = <<layers[FindLayer(pickedId)].data>>
     ELSE UNCHANGED dragVars
  /\ UNCHANGED <<layers, sessionVars, hoverVars, viewState, layerIdCounter, clickZoom,
                 gesture, clickCount, dragCount>>
  /\ UNCHANGED <<prefVars, storage>>
  /\ SaveEffect

\* one geometry item moved by (dLng, dLat), by the type of the dragged layer
TranslateItem(type, item, dLng, dLat) ==
  LET move(points) == [k \in 1..Len(points) |-> <<points[k][1] + dLng, points[k][2] + dLat>>]
  IN IF type = "point"
     THEN [item EXCEPT !.position = <<@[1] + dLng, @[2] + dLat>>]
     ELSE IF type \in {"polygon", "sector", "area"}
     THEN [item EXCEPT !.polygon = move(@)]
     ELSE IF type \in {"distance", "azimuth", "line"}
     THEN [item EXCEPT !.path = move(@)]
     ELSE item

\* a variant of HandleDrag that translates the layer's current geometry
HandleDragCumulative(coordinate) ==
  /\ UNCHANGED <<customFolders, commandCount>>
  /\ UNCHANGED overlayVars
  /\ dragCount < MaxDrags
  /\ dragCount' = dragCount + 1
  /\ IF /\ isDragging /\ draggedLayerId # Null /\ dragStartPosition # Null
        /\ originalLayerData # Null /\ FindLayer(draggedLayerId) # 0
     THEN LET totalDeltaLng == coordinate[1] - dragStartPosition[1]
              totalDeltaLat == coordinate[2] - dragStartPosition[2]
              newData(l) == [k \in 1..Len(l.data) |->
                               TranslateItem(l.type, l.data[k], totalDeltaLng, totalDeltaLat)]
          IN /\ layers' = [k \in 1..Len(layers) |->
                             IF layers[k].id = draggedLayerId
                             THEN [layers[k] EXCEPT !.data = newData(layers[k])]
                             ELSE layers[k]]
             /\ clickZoom' = viewState.zoom
     ELSE UNCHANGED <<layers, clickZoom>>
  /\ UNCHANGED <<sessionVars, hoverVars, dragVars, viewState, layerIdCounter, gesture,
                 clickCount>>
  /\ UNCHANGED <<prefVars, storage>>
  /\ SaveEffect

\* handleDrag(info) with info.coordinate = coordinate
HandleDrag(coordinate) ==
  /\ UNCHANGED <<customFolders, commandCount>>
  /\ UNCHANGED overlayVars
  /\ dragCount < MaxDrags
  /\ dragCount' = dragCount + 1
  /\ IF /\ isDragging /\ draggedLayerId # Null /\ dragStartPosition # Null
        /\ originalLayerData # Null /\ FindLayer(draggedLayerId) # 0
     THEN LET totalDeltaLng == coordinate[1] - dragStartPosition[1]
              totalDeltaLat == coordinate[2] - dragStartPosition[2]
              original == originalLayerData[1]
              newData(l) == [k \in 1..Len(original) |->
                               TranslateItem(l.type, original[k], totalDeltaLng, totalDeltaLat)]
          IN /\ layers' = [k \in 1..Len(layers) |->
                             IF layers[k].id = draggedLayerId
                             THEN [layers[k] EXCEPT !.data = newData(layers[k])]
                             ELSE layers[k]]
             /\ clickZoom' = viewState.zoom
     ELSE UNCHANGED <<layers, clickZoom>>
  /\ UNCHANGED <<sessionVars, hoverVars, dragVars, viewState, layerIdCounter, gesture,
                 clickCount>>
  /\ UNCHANGED <<prefVars, storage>>
  /\ SaveEffect

\* a variant of HandleDragEnd that keeps the snapshot
HandleDragEndKeepsSnapshot ==
  /\ UNCHANGED <<customFolders, commandCount>>
  /\ UNCHANGED overlayVars
  /\ isDragging' = FALSE
  /\ draggedLayerId' = Null
  /\ dragStartPosition' = Null
  /\ UNCHANGED <<layers, sessionVars, hoverVars, viewState, layerIdCounter, clickZoom,
                 gesture, clickCount, dragCount, originalLayerData>>
  /\ UNCHANGED <<prefVars, storage>>
  /\ SaveEffect

\* handleDragEnd()
HandleDragEnd ==
  /\ UNCHANGED <<customFolders, commandCount>>
  /\ UNCHANGED overlayVars
  /\ isDragging' = FALSE
  /\ draggedLayerId' = Null
  /\ dragStartPosition' = Null
  /\ originalLayerData' = Null
  /\ UNCHANGED <<layers, sessionVars, hoverVars, viewState, layerIdCounter, clickZoom,
                 gesture, clickCount, dragCount>>
  /\ UNCHANGED <<prefVars, storage>>
  /\ SaveEffect

\* ------------------------------------------------------------- the viewport
RECURSIVE ItemCoords(_, _)
\* the coordinates focusOnLayer visits, item by item, by the type of the layer
ItemCoords(type, data) ==
  IF data = <<>> THEN <<>>
  ELSE LET item == Head(data)
           here == IF type = "point" THEN <<item.position>>
                   ELSE IF type \in {"polygon", "area", "sector"} THEN item.polygon
                   ELSE IF type \in {"line", "distance", "azimuth"} THEN item.path
                   ELSE <<>>
       IN here \o ItemCoords(type, Tail(data))

SeqMin(xs) == CHOOSE x \in {xs[k] : k \in 1..Len(xs)} : \A j \in 1..Len(xs) : x <= xs[j]
SeqMax(xs) == CHOOSE x \in {xs[k] : k \in 1..Len(xs)} : \A j \in 1..Len(xs) : x >= xs[j]

\* a variant of FocusZoom that takes one level of padding for every layer
FocusZoomOnePadding(layer, maxDiff) ==
  LET up == layer.isUploaded
      zoom == IF Len(layer.data) = 1 /\ layer.type = "point" THEN (IF up THEN 15 ELSE 17)
              ELSE IF 1000 * maxDiff < DegScale THEN (IF up THEN 16 ELSE 18)
              ELSE IF 100 * maxDiff < DegScale THEN (IF up THEN 15 ELSE 17)
              ELSE IF 10 * maxDiff < DegScale THEN (IF up THEN 13 ELSE 15)
              ELSE IF 2 * maxDiff < DegScale THEN (IF up THEN 11 ELSE 13)
              ELSE IF maxDiff < 2 * DegScale THEN (IF up THEN 9 ELSE 11)
              ELSE IF maxDiff < 10 * DegScale THEN (IF up THEN 7 ELSE 9)
              ELSE (IF up THEN 5 ELSE 7)
  IN Max2(MinZoom, Min2(MaxZoom, zoom - 1))

\* the zoom table of focusOnLayer; maxDiff in coordinate units, and -1 stands
\* for -Infinity (no coordinate visited), which passes the first comparison
FocusZoom(layer, maxDiff) ==
  LET up == layer.isUploaded
      zoom == IF Len(layer.data) = 1 /\ layer.type = "point" THEN (IF up THEN 15 ELSE 17)
              ELSE IF 1000 * maxDiff < DegScale THEN (IF up THEN 16 ELSE 18)
              ELSE IF 100 * maxDiff < DegScale THEN (IF up THEN 15 ELSE 17)
              ELSE IF 10 * maxDiff < DegScale THEN (IF up THEN 13 ELSE 15)
              ELSE IF 2 * maxDiff < DegScale THEN (IF up THEN 11 ELSE 13)
              ELSE IF maxDiff < 2 * DegScale THEN (IF up THEN 9 ELSE 11)
              ELSE IF maxDiff < 10 * DegScale THEN (IF up THEN 7 ELSE 9)
              ELSE (IF up THEN 5 ELSE 7)
  IN IF layer.type = "point" /\ Len(layer.data) > 1
     THEN Max2(MinZoom, Min2(MaxZoom, zoom - 2))
     ELSE Max2(MinZoom, Min2(MaxZoom, zoom - 1))

\* the viewState focusOnLayer sets for a layer
FocusView(layer) ==
  LET coords == ItemCoords(layer.type, layer.data)
      lngs == [k \in 1..Len(coords) |-> coords[k][1]]
      lats == [k \in 1..Len(coords) |-> coords[k][2]]
  IN IF coords = <<>>
     THEN \* min = Infinity, max = -Infinity: the center is NaN, maxDiff is -Infinity
          [longitude |-> NaN, latitude |-> NaN, zoom |-> FocusZoom(layer, 0 - 1),
           pitch |-> 0, bearing |-> 0]
     ELSE [longitude |-> Fin((SeqMin(lngs) + SeqMax(lngs)) \div 2),
           latitude |-> Fin((SeqMin(lats) + SeqMax(lats)) \div 2),
           zoom |-> FocusZoom(layer, Max2(SeqMax(lngs) - SeqMin(lngs),
                                          SeqMax(lats) - SeqMin(lats))),
           pitch |-> 0, bearing |-> 0]

\* focusOnLayer(layerId)
FocusOnLayer(layerId) ==
  /\ UNCHANGED <<customFolders, commandCount>>
  /\ UNCHANGED overlayVars
  /\ IF FindLayer(layerId) = 0 THEN UNCHANGED viewState
     ELSE viewState' = FocusView(layers[FindLayer(layerId)])
  /\ UNCHANGED <<layers, sessionVars, hoverVars, dragVars, layerIdCounter, clickZoom,
                 gesture, clickCount, dragCount>>
  /\ UNCHANGED <<prefVars, storage>>
  /\ SaveEffect

ZoomIn ==
  /\ UNCHANGED <<customFolders, commandCount>>
  /\ UNCHANGED overlayVars
  /\ viewState' = [viewState EXCEPT !.zoom = Min2(MaxZoom, @ + 1)]
  /\ UNCHANGED <<layers, sessionVars, hoverVars, dragVars, layerIdCounter, clickZoom,
                 gesture, clickCount, dragCount>>
  /\ UNCHANGED <<prefVars, storage>>
  /\ SaveEffect

ZoomOut ==
  /\ UNCHANGED <<customFolders, commandCount>>
  /\ UNCHANGED overlayVars
  /\ viewState' = [viewState EXCEPT !.zoom = Max2(MinZoom, @ - 1)]
  /\ UNCHANGED <<layers, sessionVars, hoverVars, dragVars, layerIdCounter, clickZoom,
                 gesture, clickCount, dragCount>>
  /\ UNCHANGED <<prefVars, storage>>
  /\ SaveEffect

ResetView ==
  /\ UNCHANGED <<customFolders, commandCount>>
  /\ UNCHANGED overlayVars
  /\ viewState' = [longitude |-> Fin(INDIA_CENTER[1]), latitude |-> Fin(INDIA_CENTER[2]),
                   zoom |-> InitialZoom, pitch |-> 0, bearing |-> 0]
  /\ UNCHANGED <<layers, sessionVars, hoverVars, dragVars, layerIdCounter, clickZoom,
                 gesture, clickCount, dragCount>>
  /\ UNCHANGED <<prefVars, storage>>
  /\ SaveEffect

\* ------------------------------------------------------------ data files
\* a layer as a data file holds it: saved in an earlier session (time 0)
FileLayer(n, type, data) ==
  [BaseLayer([n |-> n, t |-> 0], <<"Saved", n>>, type, data, "#ff0000", "mdi:map-marker")
     EXCEPT !.folder = "drawn"]

\* JSON data files the operator can pick in uploadData: `layers`, `viewState`
\* and `networkLayerState` are Null when the file has no such key, else <<value>>
UploadFiles ==
  { \* one layer whose data array is empty
    [layers |-> << <<FileLayer(0, "point", <<>>)>> >>, viewState |-> Null,
     networkLayerState |-> Null, mapStyle |-> Null, collapsedSections |-> Null,
     folderNames |-> Null],
    \* two point layers, one with two items, and a saved viewport
    [layers |-> << <<FileLayer(0, "point", <<[position |-> <<0, 0>>]>>),
                     FileLayer(1, "point", <<[position |-> <<0, 0>>],
                                             [position |-> <<10000, 10000>>]>>)>> >>,
     viewState |-> <<[longitude |-> Fin(0), latitude |-> Fin(0), zoom |-> 8,
                      pitch |-> 0, bearing |-> 0]>>,
     networkLayerState |-> <<[DefaultNetworkLayerState EXCEPT !.visible = FALSE]>>,
     mapStyle |-> Null, collapsedSections |-> Null, folderNames |-> Null],
    \* an empty layer list
    [layers |-> << <<>> >>, viewState |-> Null, networkLayerState |-> Null,
     mapStyle |-> Null, collapsedSections |-> Null, folderNames |-> Null],
    \* an imported point layer, a drawn polygon and a drawn line, and a viewport
    \* saved with a zoom no button of this program produces
    [layers |-> << <<[FileLayer(2, "point", <<[position |-> <<100, 0>>]>>)
                        EXCEPT !.isUploaded = TRUE, !.folder = "uploaded"],
                     FileLayer(3, "polygon",
                               <<[polygon |-> <<<<0, 0>>, <<10000, 0>>, <<10000, 10000>>,
                                                <<0, 0>>>>]>>),
                     FileLayer(4, "line", <<[path |-> <<<<0, 0>>, <<100, 0>>>>]>>)>> >>,
     viewState |-> <<[longitude |-> Fin(0), latitude |-> Fin(0), zoom |-> 25,
                      pitch |-> 0, bearing |-> 0]>>,
     networkLayerState |-> Null, mapStyle |-> Null, collapsedSections |-> Null,
     folderNames |-> Null] }

\* a data file in which two layers carry one id
RepeatedIdFile ==
  [layers |-> << <<FileLayer(0, "point", <<[position |-> <<0, 0>>]>>),
                   FileLayer(0, "line", <<[path |-> <<<<0, 0>>, <<100, 0>>>>]>>)>> >>,
   viewState |-> Null, networkLayerState |-> Null, mapStyle |-> Null,
   collapsedSections |-> Null, folderNames |-> Null]

\* a text JSON.parse rejects, or one whose value has no properties to read
Unparseable == [parses |-> FALSE]

\* uploadData: reader.onload; every `if (data.key)` sets its piece of state, and
\* an exception of JSON.parse or of the reads is caught before any piece is set
UploadData(file) ==
  /\ UNCHANGED <<customFolders, commandCount>>
  /\ IF file = Unparseable
     THEN UNCHANGED <<viewState, layers, clickZoom, networkLayerState, prefVars>>
     ELSE /\ viewState' = IF file.viewState # Null THEN file.viewState[1] ELSE viewState
          /\ IF file.layers # Null
             THEN layers' = file.layers[1] /\ clickZoom' = viewState'.zoom
             ELSE UNCHANGED <<layers, clickZoom>>
          /\ folderNames' = IF file.folderNames # Null
                            THEN file.folderNames[1] ELSE folderNames
          /\ collapsedSections' = IF file.collapsedSections # Null
                                  THEN file.collapsedSections[1] ELSE collapsedSections
          /\ mapStyle' = IF file.mapStyle # Null THEN file.mapStyle[1] ELSE mapStyle
          /\ networkLayerState' = IF file.networkLayerState # Null
                                  THEN file.networkLayerState[1] ELSE networkLayerState
  /\ UNCHANGED <<sessionVars, hoverVars, dragVars, layerIdCounter, gesture, clickCount,
                 dragCount, tooltipInfo, bandVars, socketVars, storage>>
  /\ SaveEffect

\* ---------------------------------------------------------- saved preferences
\* the object savePreferences and the debounced save write: every piece present
Snapshot(view) ==
  [layers |-> <<layers>>, viewState |-> <<view>>, networkLayerState |-> Null,
   mapStyle |-> <<mapStyle>>, collapsedSections |-> <<collapsedSections>>,
   folderNames |-> <<folderNames>>]

\* savePreferences, the "Save Preferences" button
SavePreferences ==
  /\ storage' = Snapshot(viewState)
  /\ UNCHANGED <<layers, sessionVars, hoverVars, dragVars, viewState, layerIdCounter,
                 clickZoom, gesture, clickCount, dragCount, overlayVars, customFolders,
                 commandCount, prefVars>>
  /\ SaveEffect

\* the debounced save runs: it writes only when there is a layer
SaveTimerFires ==
  /\ saveTimer # Null
  /\ storage' = IF Len(layers) > 0 THEN Snapshot(saveTimer[1]) ELSE storage
  /\ saveTimer' = Null
  /\ UNCHANGED <<layers, sessionVars, hoverVars, dragVars, viewState, layerIdCounter,
                 clickZoom, gesture, clickCount, dragCount, overlayVars, customFolders,
                 commandCount, prefVars>>

\* loadPreferences as it would be if a piece the snapshot lacks fell back to its
\* default
LoadPreferencesResets ==
  /\ IF storage = Null \/ storage = Unparseable
     THEN UNCHANGED <<viewState, layers, clickZoom, prefVars>>
     ELSE /\ viewState' = IF storage.viewState # Null
                          THEN storage.viewState[1] ELSE viewState
          /\ IF storage.layers # Null
             THEN layers' = storage.layers[1] /\ clickZoom' = viewState'.zoom
             ELSE UNCHANGED <<layers, clickZoom>>
          /\ folderNames' = IF storage.folderNames # Null
                            THEN storage.folderNames[1] ELSE DefaultFolderNames
          /\ collapsedSections' = IF storage.collapsedSections # Null
                                  THEN storage.collapsedSections[1]
                                  ELSE collapsedSections
          /\ mapStyle' = IF storage.mapStyle # Null THEN storage.mapStyle[1]
                        ELSE DefaultMapStyle
  /\ UNCHANGED <<sessionVars, hoverVars, dragVars, layerIdCounter, gesture, clickCount,
                 dragCount, overlayVars, customFolders, commandCount, storage>>
  /\ SaveEffect

\* loadPreferences, the "Load Preferences" button (also called once on mount)
LoadPreferences ==
  /\ IF storage = Null \/ storage = Unparseable
     THEN UNCHANGED <<viewState, layers, clickZoom, prefVars>>
     ELSE /\ viewState' = IF storage.viewState # Null
                          THEN storage.viewState[1] ELSE viewState
          /\ IF storage.layers # Null
             THEN layers' = storage.layers[1] /\ clickZoom' = viewState'.zoom
             ELSE UNCHANGED <<layers, clickZoom>>
          /\ folderNames' = IF storage.folderNames # Null
                            THEN storage.folderNames[1] ELSE folderNames
          /\ collapsedSections' = IF storage.collapsedSections # Null
                                  THEN storage.collapsedSections[1]
                                  ELSE collapsedSections
          /\ mapStyle' = IF storage.mapStyle # Null THEN storage.mapStyle[1] ELSE mapStyle
  /\ UNCHANGED <<sessionVars, hoverVars, dragVars, layerIdCounter, gesture, clickCount,
                 dragCount, overlayVars, customFolders, commandCount, storage>>
  /\ SaveEffect

\* a style button of the tools panel
SetMapStyle(style) ==
  /\ mapStyle' = style
  /\ UNCHANGED <<layers, sessionVars, hoverVars, dragVars, viewState, layerIdCounter,
                 clickZoom, gesture, clickCount, dragCount, overlayVars, customFolders,
                 commandCount, collapsedSections, folderNames, storage>>
  /\ SaveEffect

\* folding or unfolding a panel section
ToggleSection(key) ==
  /\ collapsedSections' = [collapsedSections EXCEPT ![key] = ~@]
  /\ UNCHANGED <<layers, sessionVars, hoverVars, dragVars, viewState, layerIdCounter,
                 clickZoom, gesture, clickCount, dragCount, overlayVars, customFolders,
                 commandCount, mapStyle, folderNames, storage>>
  /\ SaveEffect

\* saveFolderName(folderKey) with a non-blank editingValue
SaveFolderName(folderKey, editingValue) ==
  /\ folderNames' = [folderNames EXCEPT ![folderKey] = editingValue]
  /\ UNCHANGED <<layers, sessionVars, hoverVars, dragVars, viewState, layerIdCounter,
                 clickZoom, gesture, clickCount, dragCount, overlayVars, customFolders,
                 commandCount, mapStyle, collapsedSections, storage>>
  /\ SaveEffect

\* ------------------------------------------------------------ the live feed
\* a node record of the feed
Node(userId, position, snr, connectedNodeIds) ==
  [userId |-> userId, longitude |-> position[1], latitude |-> position[2],
   snr |-> snr, connectedNodeIds |-> connectedNodeIds]

\* messages the socket can deliver: `parses` is whether JSON.parse(event.data)
\* succeeds, `nodes` is the outcome of reading parsedData.nodes
FeedMessages ==
  { \* not JSON: JSON.parse throws
    [parses |-> FALSE, nodes |-> JsUndefined],
    \* the JSON text null: it parses, and null has no property to read
    [parses |-> TRUE, nodes |-> JsThrows],
    \* two nodes, the first connected to the second and to a node not in the feed
    [parses |-> TRUE,
     nodes |-> JsArray(<<Node(1, <<0, 0>>, 25, <<2, 9>>), Node(2, <<100, 0>>, 12, <<>>)>>)],
    \* two nodes at one position, none connected
    [parses |-> TRUE,
     nodes |-> JsArray(<<Node(3, <<0, 0>>, 18, <<>>), Node(1, <<0, 0>>, 8, <<>>)>>)],
    \* an empty array, no `nodes` key, and a `nodes` that is no array
    [parses |-> TRUE, nodes |-> JsArray(<<>>)],
    [parses |-> TRUE, nodes |-> JsUndefined],
    [parses |-> TRUE, nodes |-> JsObject] }

\* the id of the overlay layer, "network-nodes"
NetworkNodesId == [fixed |-> "network-nodes"]

\* a variant of NetworkNodesLayerOf whose items are in reverse feed order
NetworkNodesLayerReversed(feed, state) ==
  IF feed.kind = "array" /\ Len(feed.items) > 0
  THEN [BaseLayer(NetworkNodesId, "Network Nodes", "point",
                  [i \in 1..Len(feed.items) |->
                     LET node == feed.items[Len(feed.items) + 1 - i]
                     IN [position |-> <<node.longitude, node.latitude>>, node |-> node]],
                  "#00ff00", "mdi:map-marker")
          EXCEPT !.visible = state.visible, !.radius = state.radius,
                 !.pointDisplayMode = state.pointDisplayMode,
                 !.iconType = state.iconType]
  ELSE Null

\* useMemo networkNodesLayer of a feed value and a network layer state
NetworkNodesLayerOf(feed, state) ==
  IF feed.kind = "array" /\ Len(feed.items) > 0
  THEN [BaseLayer(NetworkNodesId, "Network Nodes", "point",
                  [i \in 1..Len(feed.items) |->
                     [position |-> <<feed.items[i].longitude, feed.items[i].latitude>>,
                      node |-> feed.items[i]]],
                  "#00ff00", "mdi:map-marker")
          EXCEPT !.visible = state.visible, !.radius = state.radius,
                 !.pointDisplayMode = state.pointDisplayMode,
                 !.iconType = state.iconType]
  ELSE Null

networkNodesLayer == NetworkNodesLayerOf(socketData, networkLayerState)

\* handleMapClick lists networkNodesLayer and socketData among its dependencies:
\* it is memoized again, with the current zoom, when either is a new object
FeedRefresh(newData, newState) ==
  IF newData # socketData \/ newData.kind \in {"array", "object"}
     \/ NetworkNodesLayerOf(newData, newState) # Null
  THEN viewState.zoom ELSE clickZoom

\* a variant of OverlayDeckId that renders a hidden overlay too
OverlayDeckIdIgnoresVisible ==
  IF networkNodesLayer = Null THEN Null
  ELSE IF networkNodesLayer.pointDisplayMode = "circle"
       THEN [base |-> NetworkNodesId, suffix |-> <<>>]
       ELSE [base |-> NetworkNodesId, suffix |-> <<"icon">>]

\* the deck.gl layer id under which the overlay is rendered, Null if it is not:
\* "network-nodes" in circle mode, "network-nodes-icon" otherwise
OverlayDeckId ==
  IF networkNodesLayer = Null THEN Null
  ELSE IF ~networkNodesLayer.visible THEN Null
  ELSE IF networkNodesLayer.pointDisplayMode = "circle"
       THEN [base |-> NetworkNodesId, suffix |-> <<>>]
       ELSE [base |-> NetworkNodesId, suffix |-> <<"icon">>]

OverlayRendered == OverlayDeckId # Null

\* the colours of the signal classes: green for excellent, yellow for good,
\* orange for fair, red for poor
SignalColors ==
  [excellent |-> <<0, 255, 0, 255>>, good |-> <<255, 255, 0, 255>>,
   fair |-> <<255, 165, 0, 255>>, poor |-> <<255, 0, 0, 255>>]

\* a variant of getFillColor whose first threshold is inclusive
getFillColorInclusive(d) ==
  IF d.node.snr >= 20 THEN SignalColors.excellent
  ELSE IF d.node.snr > 15 THEN SignalColors.good
  ELSE IF d.node.snr > 10 THEN SignalColors.fair
  ELSE SignalColors.poor

\* getFillColor of the overlay's ScatterplotLayer (circle mode)
getFillColor(d) ==
  IF d.node.snr > 20 THEN SignalColors.excellent
  ELSE IF d.node.snr > 15 THEN SignalColors.good
  ELSE IF d.node.snr > 10 THEN SignalColors.fair
  ELSE SignalColors.poor

\* getColor of the overlay's IconLayer (icon mode)
getColor(d) ==
  IF d.node.snr > 20 THEN SignalColors.excellent
  ELSE IF d.node.snr > 15 THEN SignalColors.good
  ELSE IF d.node.snr > 10 THEN SignalColors.fair
  ELSE SignalColors.poor

\* the colours with which the items of the overlay are rendered, in order
OverlayColors ==
  IF ~OverlayRendered THEN <<>>
  ELSE [i \in 1..Len(networkNodesLayer.data) |->
          IF networkNodesLayer.pointDisplayMode = "circle"
          THEN getFillColor(networkNodesLayer.data[i])
          ELSE getColor(networkNodesLayer.data[i])]

\* the connection segments of one node, from its k-th connected id on
RECURSIVE LinesOfNode(_, _, _)
LinesOfNode(nodes, node, k) ==
  IF k > Len(node.connectedNodeIds) THEN <<>>
  ELSE LET connectedId == node.connectedNodeIds[k]
           found == {j \in 1..Len(nodes) : nodes[j].userId = connectedId}
           connectedNode == nodes[CHOOSE j \in found : \A h \in found : j <= h]
       IN (IF found = {} THEN <<>>
           ELSE <<[path |-> << <<node.longitude, node.latitude>>,
                              <<connectedNode.longitude, connectedNode.latitude>> >>,
                   fromUserId |-> node.userId, toUserId |-> connectedId]>>)
          \o LinesOfNode(nodes, node, k + 1)

\* connectionLines, from the i-th node on
RECURSIVE LinesFrom(_, _)
LinesFrom(nodes, i) ==
  IF i > Len(nodes) THEN <<>>
  ELSE LinesOfNode(nodes, nodes[i], 1) \o LinesFrom(nodes, i + 1)

\* a variant of connectionLines that resolves the first node's connections only
connectionLinesFirstNode ==
  IF socketData.kind = "array" /\ Len(socketData.items) > 0
  THEN LinesOfNode(socketData.items, socketData.items[1], 1) ELSE <<>>

\* the data of the "socket-connections" layer
connectionLines ==
  IF socketData.kind = "array" /\ Len(socketData.items) > 0
  THEN LinesFrom(socketData.items, 1) ELSE <<>>

\* the "socket-connections" layer is pushed to the render set
LinesRendered == connectionLines # <<>>

\* socket.onopen
OnOpen ==
  /\ UNCHANGED <<customFolders, commandCount>>
  /\ readyState = "connecting"
  /\ readyState' = "open"
  /\ isConnected' = TRUE
  /\ UNCHANGED <<layers, sessionVars, hoverVars, dragVars, viewState, layerIdCounter,
                 clickZoom, gesture, clickCount, dragCount, tooltipInfo, bandVars,
                 socketData, networkLayerState, feedLost>>
  /\ UNCHANGED <<prefVars, storage>>
  /\ SaveEffect

\* the try block of socket.onmessage runs to its end
TryCompletes(message) == message.parses /\ message.nodes # JsThrows

\* a variant of ReceivedData in which a message the handler cannot read clears
\* the data
ReceivedDataOrNull(message, data) ==
  IF TryCompletes(message) THEN message.nodes ELSE JsNull

\* socket.onmessage: the value of `data` after the message, `data` before it
ReceivedData(message, data) ==
  IF TryCompletes(message) THEN message.nodes ELSE data

\* a variant of OnMessage that also stores the overlay as a layer
OnMessageStoresOverlay(message) ==
  /\ UNCHANGED <<customFolders, commandCount>>
  /\ readyState = "open"
  /\ socketData' = ReceivedData(message, socketData)
  /\ IF TryCompletes(message)
     THEN /\ feedLost' = FALSE
          /\ clickZoom' = FeedRefresh(message.nodes, networkLayerState)
          /\ layers' = IF NetworkNodesLayerOf(message.nodes, networkLayerState) = Null
                       THEN layers
                       ELSE Append(layers,
                                   NetworkNodesLayerOf(message.nodes, networkLayerState))
     ELSE UNCHANGED <<feedLost, clickZoom, layers>>
  /\ UNCHANGED <<sessionVars, hoverVars, dragVars, viewState, layerIdCounter,
                 gesture, clickCount, dragCount, tooltipInfo, bandVars, isConnected,
                 readyState, networkLayerState>>
  /\ UNCHANGED <<prefVars, storage>>
  /\ SaveEffect

\* socket.onmessage
OnMessage(message) ==
  /\ UNCHANGED <<customFolders, commandCount>>
  /\ readyState = "open"
  /\ socketData' = ReceivedData(message, socketData)
  /\ IF TryCompletes(message)
     THEN /\ feedLost' = FALSE
          /\ clickZoom' = FeedRefresh(message.nodes, networkLayerState)
     ELSE UNCHANGED <<feedLost, clickZoom>>
  /\ UNCHANGED <<layers, sessionVars, hoverVars, dragVars, viewState, layerIdCounter,
                 gesture, clickCount, dragCount, tooltipInfo, bandVars, isConnected,
                 readyState, networkLayerState>>
  /\ UNCHANGED <<prefVars, storage>>
  /\ SaveEffect

\* socket.onerror: the connection has failed, its close event follows
OnError ==
  /\ UNCHANGED <<customFolders, commandCount>>
  /\ readyState \in {"connecting", "open"}
  /\ readyState' = "closing"
  /\ isConnected' = FALSE
  /\ feedLost' = TRUE
  /\ UNCHANGED <<layers, sessionVars, hoverVars, dragVars, viewState, layerIdCounter,
                 clickZoom, gesture, clickCount, dragCount, tooltipInfo, bandVars,
                 socketData, networkLayerState>>
  /\ UNCHANGED <<prefVars, storage>>
  /\ SaveEffect

\* socket.onclose
OnClose ==
  /\ UNCHANGED <<customFolders, commandCount>>
  /\ readyState # "closed"
  /\ readyState' = "closed"
  /\ isConnected' = FALSE
  /\ feedLost' = TRUE
  /\ UNCHANGED <<layers, sessionVars, hoverVars, dragVars, viewState, layerIdCounter,
                 clickZoom, gesture, clickCount, dragCount, tooltipInfo, bandVars,
                 socketData, networkLayerState>>
  /\ UNCHANGED <<prefVars, storage>>
  /\ SaveEffect

\* the eye button of the Network Nodes panel, rendered while the overlay exists
ToggleNetworkVisible ==
  /\ UNCHANGED <<customFolders, commandCount>>
  /\ networkNodesLayer # Null
  /\ networkLayerState' = [networkLayerState EXCEPT !.visible = ~@]
  /\ clickZoom' = viewState.zoom
  /\ UNCHANGED <<layers, sessionVars, hoverVars, dragVars, viewState, layerIdCounter,
                 gesture, clickCount, dragCount, tooltipInfo, bandVars, socketVars>>
  /\ UNCHANGED <<prefVars, storage>>
  /\ SaveEffect

\* the Circle and Icon buttons of the Customize Network Nodes popover
SetNetworkDisplayMode(mode) ==
  /\ UNCHANGED <<customFolders, commandCount>>
  /\ networkNodesLayer # Null
  /\ networkLayerState' = [networkLayerState EXCEPT !.pointDisplayMode = mode]
  /\ clickZoom' = viewState.zoom
  /\ UNCHANGED <<layers, sessionVars, hoverVars, dragVars, viewState, layerIdCounter,
                 gesture, clickCount, dragCount, tooltipInfo, bandVars, socketVars>>
  /\ UNCHANGED <<prefVars, storage>>
  /\ SaveEffect

\* feed messages of two nodes of any signal-to-noise ratio
SignalMessages ==
  {[parses |-> TRUE,
    nodes |-> JsArray(<<Node(1, <<0, 0>>, a, <<>>), Node(2, <<100, 0>>, b, <<>>)>>)] :
     a \in 0..MaxSnr, b \in 9..MaxSnr}

\* lists of at most MaxLinks connected ids: ids of the feed's nodes and an
\* id no node has
LinkLists ==
  UNION {[1..n -> {1, 2, 9}] : n \in 0..MaxLinks}

\* feed messages of two nodes, with distinct ids or with one id twice, the
\* first node listing any connected ids, the second any but 2
LinkMessages ==
  {[parses |-> TRUE,
    nodes |-> JsArray(<<Node(1, <<0, 0>>, 25, a), Node(id, <<100, 0>>, 12, b)>>)] :
     id \in {1, 2}, a \in LinkLists,
     b \in {l \in LinkLists : \A k \in DOMAIN l : l[k] # 2}}

\* ------------------------------------------------------------ pointer hover
\* what the rendering surface can report to onHover in the current state:
\* the pointer over no object (with or without a map coordinate), over an
\* item of the rendered overlay, or over the geometry of a visible layer
HoverInfos ==
  {[object |-> FALSE, layerId |-> Null, coordinate |-> <<c>>] : c \in Coords}
  \cup {[object |-> FALSE, layerId |-> Null, coordinate |-> Null]}
  \cup {[object |-> TRUE, layerId |-> OverlayDeckId, coordinate |-> <<c>>] :
          c \in {d \in Coords : OverlayRendered}}
  \cup {[object |-> TRUE, layerId |-> DeckLayerId(layers[i]), coordinate |-> <<c>>] :
          i \in {j \in 1..Len(layers) : layers[j].visible}, c \in Coords}

\* a variant of NodeIndex that takes the highest matching index
NodeIndexLast(coordinate) ==
  IF networkNodesLayer = Null THEN 0
  ELSE LET data == networkNodesLayer.data
           found == {i \in 1..Len(data) : data[i].position = coordinate}
       IN IF found = {} THEN 0 ELSE CHOOSE i \in found : \A j \in found : i >= j

\* networkNodesLayer?.data.findIndex(position equals coordinate): the lowest
\* matching index, 0 if there is none or no overlay
NodeIndex(coordinate) ==
  IF networkNodesLayer = Null THEN 0
  ELSE LET data == networkNodesLayer.data
           found == {i \in 1..Len(data) : data[i].position = coordinate}
       IN IF found = {} THEN 0 ELSE CHOOSE i \in found : \A j \in found : i <= j

\* the tooltip of a feed node
NodeTooltip(node, coordinate) ==
  [layer |-> [BaseLayer(NetworkNodesId, <<"Node", node.userId>>, "point", <<node>>,
                        "#00ff00", "")
                EXCEPT !.isUploaded = Null],
   coordinate |-> coordinate]

\* handleMouseMove: the value it leaves in tooltipInfo
HoverTooltip(info) ==
  IF drawMode = "none" /\ info.object /\ info.layerId # Null /\ info.coordinate # Null
  THEN IF info.layerId.base = NetworkNodesId
       THEN IF NodeIndex(info.coordinate[1]) # 0 /\ socketData.kind = "array"
            THEN NodeTooltip(socketData.items[NodeIndex(info.coordinate[1])],
                             info.coordinate[1])
            ELSE tooltipInfo
       ELSE \* layers.find((l) => layerId.startsWith(l.id))
            IF FindLayer(info.layerId.base) # 0
            THEN [layer |-> layers[FindLayer(info.layerId.base)],
                  coordinate |-> info.coordinate[1]]
            ELSE tooltipInfo
  ELSE IF drawMode = "none" /\ ~info.object THEN Null
  ELSE tooltipInfo

\* handleMouseMove: the value it leaves in hoveredPoint while drawing
HoverClosePoint(coordinate) ==
  IF drawMode \in RingModes /\ Len(drawingPoints) >= 2
     /\ WithinTolerance(coordinate, drawingPoints[1], viewState.zoom)
  THEN drawingPoints[1] ELSE Null

\* DeckGL onHover: handleMouseMove(info)
HandleMouseMove(info) ==
  /\ UNCHANGED <<customFolders, commandCount>>
  /\ tooltipInfo' = HoverTooltip(info)
  /\ IF drawMode # "none" /\ info.coordinate # Null
     THEN /\ mousePosition' = info.coordinate[1]
          /\ hoveredPoint' = HoverClosePoint(info.coordinate[1])
     ELSE IF drawMode # "none"
     THEN mousePosition' = Null /\ hoveredPoint' = Null
     ELSE UNCHANGED hoverVars
  /\ IF isRubberBandZooming /\ info.coordinate # Null
     THEN rubberBandEnd' = info.coordinate[1]
     ELSE UNCHANGED rubberBandEnd
  /\ UNCHANGED <<layers, sessionVars, dragVars, viewState, layerIdCounter, clickZoom,
                 gesture, clickCount, dragCount, isRubberBandZooming, rubberBandStart,
                 socketVars, networkLayerState>>
  /\ UNCHANGED <<prefVars, storage>>
  /\ SaveEffect

\* the close button of the tooltip
CloseTooltip ==
  /\ UNCHANGED <<customFolders, commandCount>>
  /\ tooltipInfo # Null
  /\ tooltipInfo' = Null
  /\ UNCHANGED <<layers, sessionVars, hoverVars, dragVars, viewState, layerIdCounter,
                 clickZoom, gesture, clickCount, dragCount, bandVars, socketVars,
                 networkLayerState>>
  /\ UNCHANGED <<prefVars, storage>>
  /\ SaveEffect

\* --------------------------------------------------------- rubber-band zoom
\* floor(14 - log2(maxDiff * 100)) for maxDiff > 0 in coordinate units: the
\* largest z with 2^(z - 14) <= 100 / (100 * maxDiff / DegScale); viewState.zoom
\* is kept in whole zoom levels
BandLevel(maxDiff) ==
  LET fits(z) == IF z >= 14 THEN maxDiff * (2 ^ (z - 14)) <= DegScale \div 100
                 ELSE maxDiff <= (DegScale \div 100) * (2 ^ (14 - z))
  IN IF fits(0) THEN CHOOSE z \in 0..(MaxZoom + 1) :
                       fits(z) /\ (z = MaxZoom + 1 \/ ~fits(z + 1))
     ELSE 0

\* a variant of RubberBandZoom without the clamp
RubberBandZoomUnclamped(maxDiff) ==
  IF maxDiff = 0 THEN MaxZoom + 1 ELSE BandLevel(maxDiff)

\* Math.max(1, Math.min(20, 14 - Math.log2(maxDiff * 100))); for maxDiff = 0
\* the logarithm is -Infinity and the minimum is 20
RubberBandZoom(maxDiff) ==
  IF maxDiff = 0 THEN Max2(MinZoom, MaxZoom)
  ELSE Max2(MinZoom, Min2(MaxZoom, BandLevel(maxDiff)))

\* a corner far from the others, for a selection wider than the lowest zoom shows
FarCoord == <<1000000, 0>>

\* a variant of HandleRubberBandStart that starts a selection in every mode
HandleRubberBandStartAnyMode(coordinate) ==
  /\ UNCHANGED <<customFolders, commandCount>>
  /\ isRubberBandZooming' = TRUE
  /\ rubberBandStart' = coordinate
  /\ rubberBandEnd' = coordinate
  /\ UNCHANGED <<layers, sessionVars, hoverVars, dragVars, viewState, layerIdCounter,
                 clickZoom, gesture, clickCount, dragCount, tooltipInfo, socketVars,
                 networkLayerState>>
  /\ UNCHANGED <<prefVars, storage>>
  /\ SaveEffect

\* handleRubberBandStart(info) with info.coordinate = coordinate
HandleRubberBandStart(coordinate) ==
  /\ UNCHANGED <<customFolders, commandCount>>
  /\ IF drawMode = "none"
     THEN /\ isRubberBandZooming' = TRUE
          /\ rubberBandStart' = coordinate
          /\ rubberBandEnd' = coordinate
     ELSE UNCHANGED bandVars
  /\ UNCHANGED <<layers, sessionVars, hoverVars, dragVars, viewState, layerIdCounter,
                 clickZoom, gesture, clickCount, dragCount, tooltipInfo, socketVars,
                 networkLayerState>>
  /\ UNCHANGED <<prefVars, storage>>
  /\ SaveEffect

\* handleRubberBandEnd(info)
HandleRubberBandEnd ==
  /\ UNCHANGED <<customFolders, commandCount>>
  /\ IF isRubberBandZooming /\ rubberBandStart # Null /\ rubberBandEnd # Null
     THEN LET minLng == Min2(rubberBandStart[1], rubberBandEnd[1])
              maxLng == Max2(rubberBandStart[1], rubberBandEnd[1])
              minLat == Min2(rubberBandStart[2], rubberBandEnd[2])
              maxLat == Max2(rubberBandStart[2], rubberBandEnd[2])
              maxDiff == Max2(maxLng - minLng, maxLat - minLat)
          IN /\ viewState' = [longitude |-> Fin((minLng + maxLng) \div 2),
                             latitude |-> Fin((minLat + maxLat) \div 2),
                             zoom |-> RubberBandZoom(maxDiff),
                             pitch |-> 0, bearing |-> 0]
             /\ isRubberBandZooming' = FALSE
             /\ rubberBandStart' = Null
             /\ rubberBandEnd' = Null
     ELSE UNCHANGED <<viewState, bandVars>>
  /\ UNCHANGED <<layers, sessionVars, hoverVars, dragVars, layerIdCounter, clickZoom,
                 gesture, clickCount, dragCount, tooltipInfo, socketVars,
                 networkLayerState>>
  /\ UNCHANGED <<prefVars, storage>>
  /\ SaveEffect

\* the values of a snapshot saved by another session
SavedSnapshot ==
  [layers |-> <<FileLayer(0, "point", <<[position |-> <<0, 0>>]>>)>>,
   viewState |-> [longitude |-> Fin(0), latitude |-> Fin(0), zoom |-> 8,
                  pitch |-> 0, bearing |-> 0],
   mapStyle |-> "mapbox://styles/mapbox/dark-v11",
   collapsedSections |-> [DefaultCollapsedSections EXCEPT !.tools = TRUE],
   folderNames |-> [DefaultFolderNames EXCEPT !.drawn = "Sketches"]]

\* the snapshot of which `keys` are the pieces present
PrefFile(keys) ==
  [layers |-> IF "layers" \in keys THEN <<SavedSnapshot.layers>> ELSE Null,
   viewState |-> IF "viewState" \in keys THEN <<SavedSnapshot.viewState>> ELSE Null,
   networkLayerState |-> Null,
   mapStyle |-> IF "mapStyle" \in keys THEN <<SavedSnapshot.mapStyle>> ELSE Null,
   collapsedSections |-> IF "collapsedSections" \in keys
                         THEN <<SavedSnapshot.collapsedSections>> ELSE Null,
   folderNames |-> IF "folderNames" \in keys
                   THEN <<SavedSnapshot.folderNames>> ELSE Null]

\* snapshots read by loadPreferences and uploadData: every piece, none, and
\* three partial ones; and a text that does not parse
PrefFiles ==
  {PrefFile(keys) :
     keys \in {{"layers", "viewState", "mapStyle", "collapsedSections", "folderNames"},
               {}, {"layers"}, {"mapStyle", "folderNames"},
               {"viewState", "collapsedSections"}}}
  \cup {Unparseable}

\* the "mapPreferences" entry of localStorage as another session of the origin
\* left it: loadPreferences reads whatever text the entry holds
StorageWritten(content) ==
  /\ storage' = content
  /\ UNCHANGED <<layers, sessionVars, hoverVars, dragVars, viewState, layerIdCounter,
                 clickZoom, gesture, clickCount, dragCount, overlayVars, customFolders,
                 commandCount, prefVars>>
  /\ SaveEffect

\* ------------------------------------------------------- the map controller
\* view states the deck.gl controller reports after a pan or a scroll zoom; the
\* controller is given no zoom limits, so its own apply (levels 0 to 20)
ControllerViews ==
  {[longitude |-> Fin(0), latitude |-> Fin(0), zoom |-> z, pitch |-> 0, bearing |-> 0] :
     z \in {0, 12, MaxZoom}}

\* DeckGL onViewStateChange: setViewState(viewState)
OnViewStateChange(newViewState) ==
  /\ UNCHANGED <<customFolders, commandCount>>
  /\ viewState' = newViewState
  /\ UNCHANGED <<layers, sessionVars, hoverVars, dragVars, layerIdCounter, clickZoom,
                 gesture, clickCount, dragCount, overlayVars>>
  /\ UNCHANGED <<prefVars, storage>>
  /\ SaveEffect

\* ------------------------------------------------------------ specification
\* the drawing session and the layer list, as the interface drives them
Next ==
  \/ \E m \in ToolbarModes : ToolbarButton(m)
  \/ CancelDrawing
  \/ \E c \in Coords : HandleMapClick(c)
  \/ \E i \in 1..MaxClicks : RemoveLayer(i)
  \/ StartFresh

Spec == Init /\ [][Next]_vars

\* the drawing session together with the drag handlers, each handler called with
\* the id of a stored layer; one pointer: between a drag start and its drag end
\* the only events are drag moves
NextDrag ==
  \/ ~isDragging /\ \E m \in RingModes : ToolbarButton(m)
  \/ ~isDragging /\ CancelDrawing
  \/ ~isDragging /\ \E c \in Coords : HandleMapClick(c)
  \/ \E i \in 1..MaxClicks, c \in Coords :
        i <= Len(layers) /\ HandleDragStart(layers[i].id, c)
  \/ \E c \in Coords : dragCount < MaxRingDrags /\ HandleDrag(c)
  \/ HandleDragEnd

SpecDrag == Init /\ [][NextDrag]_vars

\* the viewport: the layer list buttons, the zoom buttons and data files
NextView ==
  \/ \E f \in UploadFiles : UploadData(f)
  \/ \E i \in 1..MaxClicks : i <= Len(layers) /\ FocusOnLayer(layers[i].id)
  \/ \E i \in 1..MaxClicks : RemoveLayer(i)
  \/ ZoomIn
  \/ ZoomOut
  \/ ResetView
  \/ \E v \in ControllerViews : OnViewStateChange(v)

SpecView == Init /\ [][NextView]_vars

\* the viewport fitters: focus-on-layer over loaded layers and the rubber-band
\* selection, its handlers called as the commented-out wiring would call them
NextFit ==
  \/ \E f \in UploadFiles : UploadData(f)
  \/ \E i \in 1..MaxClicks : i <= Len(layers) /\ FocusOnLayer(layers[i].id)
  \/ \E c \in Coords \cup {FarCoord} : HandleRubberBandStart(c)
  \/ \E info \in HoverInfos : HandleMouseMove(info)
  \/ HandleRubberBandEnd

SpecFit == Init /\ [][NextFit]_vars

\* the drag handlers over loaded layers, each drag start called with the id of
\* a stored layer; one pointer: no file is picked during a drag
NextGrab ==
  \/ ~isDragging /\ \E f \in UploadFiles : UploadData(f)
  \/ \E i \in 1..MaxClicks, c \in Coords :
        i <= Len(layers) /\ HandleDragStart(layers[i].id, c)
  \/ \E c \in Coords : HandleDrag(c)
  \/ HandleDragEnd
  \/ \E i \in 1..MaxClicks : RemoveLayer(i)

SpecGrab == Init /\ [][NextGrab]_vars

\* the drag wiring of the map: onDragStart reports the id of the rendered
\* deck.gl layer, onDrag is not wired, onDragEnd calls handleDragEnd
NextDeck ==
  \/ ToolbarButton("point")
  \/ \E c \in Coords : HandleMapClick(c)
  \/ \E i \in 1..MaxClicks, c \in Coords :
        /\ i <= Len(layers)
        /\ layers[i].visible
        /\ HandleDragStart(DeckLayerId(layers[i]), c)
  \/ HandleDragEnd

SpecDeck == Init /\ [][NextDeck]_vars

\* the live feed, the overlay panel and the tooltip
NextFeed ==
  \/ OnOpen
  \/ \E message \in FeedMessages : OnMessage(message)
  \/ OnError
  \/ OnClose
  \/ ToggleNetworkVisible
  \/ \E info \in HoverInfos : HandleMouseMove(info)
  \/ CloseTooltip
  \/ ToolbarButton("polygon")

SpecFeed == Init /\ [][NextFeed]_vars

\* the live feed with nodes of every signal-to-noise ratio, in both display modes
NextSignal ==
  \/ OnOpen
  \/ \E message \in SignalMessages : OnMessage(message)
  \/ \E mode \in {"circle", "icon"} : SetNetworkDisplayMode(mode)

SpecSignal == Init /\ [][NextSignal]_vars

\* the live feed with nodes that list connections
NextLinks ==
  \/ OnOpen
  \/ \E message \in LinkMessages : OnMessage(message)
  \/ OnClose

SpecLinks == Init /\ [][NextLinks]_vars

\* the messages of a run that also draws: one that does not parse and one
\* with connected nodes
MixMessages ==
  {message \in FeedMessages :
     \/ ~message.parses
     \/ message.nodes.kind = "array" /\ LinesFrom(message.nodes.items, 1) # <<>>}

\* the live feed while a line is drawn, a layer is grabbed and the map is zoomed
NextMix ==
  \/ OnOpen
  \/ \E message \in MixMessages : OnMessage(message)
  \/ OnError
  \/ OnClose
  \/ ToolbarButton("line")
  \/ \E c \in Coords : clickCount < MaxMixClicks /\ HandleMapClick(c)
  \/ \E i \in 1..MaxClicks, c \in Coords :
        i <= Len(layers) /\ HandleDragStart(layers[i].id, c)
  \/ HandleDragEnd
  \/ viewState.zoom = InitialZoom /\ ZoomIn

SpecMix == Init /\ [][NextMix]_vars

\* ids a layer list command can be called with: those of the stored layers
\* and one no layer has
CommandIds == {layers[i].id : i \in 1..Len(layers)} \cup {[n |-> 0, t |-> 0]}

\* the layer list: its first layers are drawn (a point or a distance) or
\* imported; then the commands of the layer rows, folders, and a drag of a
\* stored layer
NextStore ==
  \/ \E m \in {"point", "distance"} : layerIdCounter = 0 /\ ToolbarButton(m)
  \/ \E c \in {<<0, 0>>, <<100, 0>>} :
       clickCount < MaxMixClicks /\ drawMode # "none" /\ HandleMapClick(c)
  \/ \E points \in CSVPoints :
       layerIdCounter = 0 /\ drawMode = "none" /\ HandleCSVUpload(points)
  \/ \E batch \in GeoJSONBatches :
       layerIdCounter = 0 /\ drawMode = "none" /\ HandleGeoJSONUpload(batch)
  \/ \E id \in CommandIds :
       /\ commandCount < MaxCommands
       /\ \/ ToggleLayerVisibility(id)
          \/ ChangeLayerColor(id, "#123456")
          \/ ChangeLayerIcon(id, "mdi:star")
          \/ ChangeLayerRadius(id, Fin(20))
          \/ ChangePointDisplayMode(id, "icon")
          \/ ChangeIconType(id, "pin")
          \/ ChangeLayerName(id, <<"Renamed", 0>>)
          \/ \E folderName \in {"untitled", "uploaded", "custom"} :
               MoveLayerToFolder(id, folderName)
  \/ Len(customFolders) < MaxFolders /\ AddCustomFolder("custom")
  \/ commandCount < MaxCommands /\ RemoveCustomFolder("custom")
  \/ \E i \in 1..MaxClicks : ~isDragging /\ RemoveLayer(i)
  \/ \E i \in 1..MaxClicks :
        i <= Len(layers) /\ HandleDragStart(layers[i].id, <<0, 0>>)
  \/ dragCount < MaxRingDrags /\ HandleDrag(<<100, 0>>)
  \/ HandleDragEnd

SpecStore == Init /\ [][NextStore]_vars

\* data files loaded into a session that also imports points, and the
\* visibility and remove buttons of the layer rows
NextLoad ==
  \/ \E f \in UploadFiles \cup {RepeatedIdFile} : UploadData(f)
  \/ \E points \in CSVPoints : layerIdCounter < MaxMixClicks /\ HandleCSVUpload(points)
  \/ \E id \in CommandIds : commandCount < MaxCommands /\ ToggleLayerVisibility(id)
  \/ \E i \in 1..MaxClicks : RemoveLayer(i)

SpecLoad == Init /\ [][NextLoad]_vars

\* one layer of any kind is drawn or a feature collection is imported; then
\* the commands of the layer rows and a drag of the layer
NextMeasure ==
  \/ \E m \in ToolbarModes : layerIdCounter = 0 /\ ToolbarButton(m)
  \/ \E c \in {<<0, 0>>, <<100, 0>>} :
       layerIdCounter = 0 /\ drawMode # "none" /\ HandleMapClick(c)
  \/ \E batch \in GeoJSONBatches :
       layerIdCounter = 0 /\ drawMode = "none" /\ HandleGeoJSONUpload(batch)
  \/ \E id \in CommandIds :
       /\ commandCount < MaxCommands
       /\ \/ ToggleLayerVisibility(id)
          \/ ChangeLayerRadius(id, Fin(20))
          \/ ChangeLayerName(id, <<"Renamed", 0>>)
          \/ MoveLayerToFolder(id, "untitled")
  \/ \E i \in 1..MaxClicks :
        i <= Len(layers) /\ HandleDragStart(layers[i].id, <<0, 0>>)
  \/ dragCount < MaxRingDrags /\ HandleDrag(<<100, 0>>)
  \/ HandleDragEnd

SpecMeasure == Init /\ [][NextMeasure]_vars

\* the drawing session with the pointer moving over the map between the clicks
\* and the "Cancel drawing" button
NextCancel ==
  \/ \E m \in {"polygon", "sector", "distance"} : layerIdCounter = 0 /\ ToolbarButton(m)
  \/ \E c \in Coords : layerIdCounter = 0 /\ HandleMapClick(c)
  \/ \E info \in HoverInfos : HandleMouseMove(info)
  \/ CancelDrawing

SpecCancel == Init /\ [][NextCancel]_vars

\* the click coordinates of NextHover: any of Coords for a ring, those on the
\* centre's parallel for a sector
HoverClicks == {c \in Coords : drawMode = "sector" => c[2] = 0}

\* one polygon or sector drawn with the pointer moving over the bare map
\* between the clicks
NextHover ==
  \/ \E m \in {"polygon", "sector"} : layerIdCounter = 0 /\ ToolbarButton(m)
  \/ \E c \in HoverClicks : layerIdCounter = 0 /\ HandleMapClick(c)
  \/ \E info \in {i \in HoverInfos : ~i.object} : HandleMouseMove(info)

SpecHover == Init /\ [][NextHover]_vars

\* the pointer over the bare map at `coordinate`
BareHover(coordinate) == [object |-> FALSE, layerId |-> Null, coordinate |-> <<coordinate>>]

\* one ring drawn while the map controller changes the zoom and the pointer
\* moves over the bare map
NextZoom ==
  \/ \E m \in RingModes : layerIdCounter = 0 /\ ToolbarButton(m)
  \/ \E c \in Coords : layerIdCounter = 0 /\ HandleMapClick(c)
  \/ \E c \in {<<0, 0>>, <<100, 0>>} : HandleMouseMove(BareHover(c))
  \/ \E newViewState \in ControllerViews : OnViewStateChange(newViewState)

SpecZoom == Init /\ [][NextZoom]_vars

\* the focus button over loaded and imported layers
NextFocus ==
  \/ \E f \in UploadFiles : UploadData(f)
  \/ \E points \in CSVPoints : layerIdCounter < MaxMixClicks /\ HandleCSVUpload(points)
  \/ \E i \in 1..MaxClicks : i <= Len(layers) /\ FocusOnLayer(layers[i].id)
  \/ \E i \in 1..MaxClicks : RemoveLayer(i)

SpecFocus == Init /\ [][NextFocus]_vars

\* the rubber-band handlers, called as the commented-out wiring would call
\* them, while a point is drawn
NextBand ==
  \/ layerIdCounter = 0 /\ ToolbarButton("point")
  \/ layerIdCounter = 0 /\ HandleMapClick(<<0, 0>>)
  \/ \E c \in {<<0, 0>>, <<10000, 10000>>} : HandleRubberBandStart(c)
  \/ \E c \in {<<0, 0>>, <<10000, 10000>>} : HandleMouseMove(BareHover(c))
  \/ HandleRubberBandEnd

SpecBand == Init /\ [][NextBand]_vars

\* the preferences: style buttons, section toggles, a folder renamed, points
\* imported and removed, and the snapshot saved, loaded from localStorage and
\* loaded from a data file
NextPrefs ==
  \/ \E style \in {DefaultMapStyle, SavedSnapshot.mapStyle} : SetMapStyle(style)
  \/ ToggleSection("tools")
  \/ SaveFolderName("drawn", "Sketches")
  \/ layerIdCounter < 1 /\ HandleCSVUpload(<<[position |-> <<100, 0>>]>>)
  \/ RemoveLayer(1)
  \/ SavePreferences
  \/ SaveTimerFires
  \/ LoadPreferences
  \/ \E file \in PrefFiles : UploadData(file)
  \/ \E content \in PrefFiles : StorageWritten(content)

SpecPrefs == Init /\ [][NextPrefs]_vars

\* the layer list changed by imports and removals while the debounced save
\* runs, with the save and load buttons
NextSave ==
  \/ \E points \in CSVPoints : layerIdCounter < MaxMixClicks /\ HandleCSVUpload(points)
  \/ \E i \in 1..MaxClicks : RemoveLayer(i)
  \/ \E style \in {DefaultMapStyle, SavedSnapshot.mapStyle} : SetMapStyle(style)
  \/ SaveTimerFires
  \/ SavePreferences
  \/ LoadPreferences

SpecSave == Init /\ [][NextSave]_vars

\* the toolbar, the map clicks and the drag handlers in any order: a toolbar
\* button is a focusable control, so it can be pressed while the pointer holds
\* a drag
NextAnyOrder ==
  \/ \E m \in {"point", "polygon"} : ToolbarButton(m)
  \/ \E c \in {<<0, 0>>, <<100, 0>>} : HandleMapClick(c)
  \/ \E i \in 1..MaxClicks :
        i <= Len(layers) /\ HandleDragStart(layers[i].id, <<0, 0>>)
  \/ HandleDragEnd

SpecAnyOrder == Init /\ [][NextAnyOrder]_vars

\* ------------------------------------------------------------------ claims
\* the coordinates of the clicks since the last toolbar press
Clicked == {gesture.clicks[k] : k \in 1..Len(gesture.clicks)}

\* the coordinates stored in a layer
LayerCoords(layer) ==
  LET coords == ItemCoords(layer.type, layer.data)
  IN {coords[k] : k \in 1..Len(coords)}

\* a layer created by drawing in this session
Drawn(layer) == layer.id.t = SessionTime

\* the step is a map click
ClickStep == clickCount' = clickCount + 1

\* the step is a map click that commits a layer
CommitStep == ClickStep /\ Len(layers') = Len(layers) + 1

\* C1: once the mode is set to line, distance or azimuth, the next two map
\* clicks commit exactly one layer of that kind whose single path is the two
\* clicked coordinates in click order, and the mode is none after the second.
C1_TwoClicksCommitOneLayer ==
  (gesture.mode \in TwoPointModes /\ Len(gesture.clicks) = 2) =>
    /\ drawMode = "none"
    /\ Len(gesture.commits) = 1
    /\ gesture.commits[1].type = gesture.mode
    /\ gesture.commits[1].data = <<[path |-> gesture.clicks]>>

\* C2: after a gesture completes or the mode is switched or toggled off by a
\* toolbar button, the vertices are empty and the sector sub-state is unset;
\* in particular mode none implies both.
C2_SessionResetWhenIdle ==
  (drawMode = "none" \/ gesture.clicks = <<>>) => SessionReset

\* C3: every layer committed by drawing holds only coordinates clicked since
\* the mode that commits it was entered (for a sector: its center is one).
C3_CommitOnlyFromOwnGesture ==
  \A k \in 1..Len(gesture.commits) :
    LET layer == gesture.commits[k]
    IN IF layer.type = "sector"
       THEN layer.data[1].polygon[1] \in Clicked
       ELSE LayerCoords(layer) \subseteq Clicked

\* C4: in sector mode entered with an empty sector sub-state, the first three
\* clicks commit nothing and set center, radius, start angle, one field per
\* click, and exactly the fourth click commits one sector layer and resets
\* the sub-state and the mode.
C4_SectorFourClicks ==
  (gesture.mode = "sector" /\ gesture.clean) =>
    /\ Len(gesture.clicks) \in 1..3 =>
         /\ gesture.commits = <<>>
         /\ drawMode = "sector"
         /\ sectorCenter # Null
         /\ (sectorRadius # 0) = (Len(gesture.clicks) >= 2)
         /\ (sectorStartAngle # 0) = (Len(gesture.clicks) >= 3)
    /\ Len(gesture.clicks) = 4 =>
         /\ Len(gesture.commits) = 1
         /\ gesture.commits[1].type = "sector"
         /\ drawMode = "none"
         /\ SessionReset

\* C5: when a polygon or area click closes the ring, the committed ring is
\* the vertices accumulated before the click followed by a copy of the first
\* vertex, and the session resets to none with empty vertices.
C5_RingIsVerticesPlusFirst ==
  [][(CommitStep /\ drawMode \in RingModes) =>
       /\ layers'[Len(layers')].data =
            <<[polygon |-> Append(drawingPoints, drawingPoints[1])]>>
       /\ drawMode' = "none"
       /\ drawingPoints' = <<>>]_vars

\* the ring of a one-item polygon, area or sector layer
Ring(layer) == layer.data[1].polygon

\* the layers drawn in this session whose type is in `types`
DrawnOf(types) ==
  {layers[i] : i \in {j \in 1..Len(layers) : Drawn(layers[j]) /\ layers[j].type \in types}}

\* C6: every polygon or area layer produced by drawing stores a ring whose
\* first and last coordinates are equal, also after the layer is translated
\* by a drag.
C6_DrawnRingClosed ==
  \A layer \in DrawnOf(RingModes) :
    /\ Len(layer.data) = 1
    /\ Len(Ring(layer)) >= 2
    /\ Ring(layer)[1] = Ring(layer)[Len(Ring(layer))]

\* C6 witness: a drawn polygon or area layer is being dragged and its ring
\* has moved away from the snapshot taken at drag start.
C6_Witness ==
  /\ isDragging
  /\ originalLayerData # Null
  /\ \E layer \in DrawnOf(RingModes) :
       /\ layer.id = draggedLayerId
       /\ layer.data # originalLayerData[1]

\* C7 as stated: every sector layer committed by the fourth sector click
\* stores a ring whose first coordinate is the center and whose last
\* coordinate equals the first.
C7_SectorRingClosed ==
  [][(CommitStep /\ drawMode = "sector") =>
       LET ring == Ring(layers'[Len(layers')])
       IN /\ ring[1] = sectorCenter
          /\ ring[Len(ring)] = ring[1]]_vars

\* C7 as the code has it: every sector layer committed by the fourth sector
\* click stores the ring [center, arc point 0 .. arc point NumPoints]: its
\* first coordinate is the center, it has NumPoints + 2 coordinates, and no
\* closing copy of the center is appended.
C7_SectorRingCenterThenArc ==
  [][(CommitStep /\ drawMode = "sector") =>
       LET ring == Ring(layers'[Len(layers')])
       IN /\ ring[1] = sectorCenter
          /\ Len(ring) = NumPoints + 2]_vars

\* C7 witness: a sector layer has been committed and its ring's last
\* coordinate differs from its first.
C7_Witness ==
  \E layer \in DrawnOf({"sector"}) :
    /\ gesture.mode = "sector"
    /\ Len(gesture.commits) = 1
    /\ Ring(layer)[Len(Ring(layer))] # Ring(layer)[1]

\* C8: a map click commits at most one layer, and only in the step in which
\* the mode returns to none; every other click leaves the committed layers
\* unchanged.
C8_ClickCommitsAtMostOne ==
  [][ClickStep =>
       \/ layers' = layers
       \/ /\ Len(layers') = Len(layers) + 1
          /\ SubSeq(layers', 1, Len(layers)) = layers
          /\ drawMode # "none"
          /\ drawMode' = "none"]_vars

\* C8 witness: a gesture of several clicks has committed one layer with its
\* last click and the mode is none.
C8_Witness ==
  /\ Len(gesture.clicks) >= 2
  /\ Len(gesture.commits) = 1
  /\ gesture.mode # "none"
  /\ drawMode = "none"

\* C9: in point mode a single click appends exactly one point layer whose
\* position is the clicked coordinate and sets the mode to none, without
\* touching the vertices or the sector sub-state.
C9_PointClickCommits ==
  [][(ClickStep /\ drawMode = "point") =>
       LET c == gesture'.clicks[Len(gesture'.clicks)]
           newLayer == layers'[Len(layers')]
       IN /\ Len(layers') = Len(layers) + 1
          /\ SubSeq(layers', 1, Len(layers)) = layers
          /\ newLayer.type = "point"
          /\ newLayer.data = <<[position |-> c]>>
          /\ drawMode' = "none"
          /\ UNCHANGED <<drawingPoints, sectorCenter, sectorRadius,
                         sectorStartAngle>>]_vars

\* C9 witness: a point click has committed its layer while vertices of an
\* earlier gesture were in the session, and they are still there.
C9_Witness ==
  /\ gesture.mode = "point"
  /\ Len(gesture.commits) = 1
  /\ gesture.commits[1].type = "point"
  /\ drawMode = "none"
  /\ drawingPoints # <<>>

\* C10: focus-on-layer on a layer with zero geometry items is a no-op: the
\* viewport is unchanged and its center is never NaN or infinite.
C10_FocusOnEmptyLayerIsNoOp ==
  [][\A i \in 1..Len(layers) :
       (Len(layers[i].data) = 0 /\ FocusOnLayer(layers[i].id)) =>
         /\ viewState' = viewState
         /\ viewState'.longitude # NaN
         /\ viewState'.latitude # NaN]_vars

\* C11: the zoom written to the viewport by focus-on-layer and by the
\* rubber-band zoom lies in [1, 20], for every layer and every selection.
C11_FitZoomInRange ==
  [][((\E i \in 1..Len(layers) : FocusOnLayer(layers[i].id)) \/ HandleRubberBandEnd) =>
       viewState'.zoom \in MinZoom..MaxZoom]_vars

\* C11 witness: a rubber-band selection from the origin to the far corner has
\* ended and the viewport sits on its midpoint at the lowest zoom.
C11_Witness ==
  /\ ~isRubberBandZooming
  /\ viewState.longitude = Fin(FarCoord[1] \div 2)
  /\ viewState.zoom = MinZoom

\* C12: in every reachable state the viewport zoom is within [1, 20].
C12_ZoomAlwaysInRange == viewState.zoom \in MinZoom..MaxZoom

\* C13: a drag start over the rendered geometry of a drawn layer while the
\* mode is none starts a drag gesture for that layer: it records the layer's
\* id, the starting coordinate and a copy of the layer's geometry.
C13_DragStartOverDrawnLayer ==
  \A i \in 1..Len(layers), c \in Coords :
    (drawMode = "none" /\ layers[i].visible /\ ~layers[i].isUploaded) =>
      ENABLED (/\ HandleDragStart(DeckLayerId(layers[i]), c)
               /\ isDragging'
               /\ draggedLayerId' = layers[i].id
               /\ dragStartPosition' = c
               /\ originalLayerData' = <<layers[i].data>>)

\* the drag handlers have touched the gesture or moved geometry in this step
DragStep == dragCount' # dragCount \/ dragVars' # dragVars

\* the layer the drag gesture holds, 0 if it is gone
Dragged == IF draggedLayerId = Null THEN 0 ELSE FindLayer(draggedLayerId)

\* C14: uploaded layers are never drag-translated: no drag start, move or end
\* changes an uploaded layer, and a drag gesture never becomes active for one.
C14_UploadedNeverDragged ==
  [][/\ (isDragging' /\ ~isDragging) =>
          /\ FindLayer(draggedLayerId') # 0
          /\ ~layers[FindLayer(draggedLayerId')].isUploaded
     /\ DragStep =>
          /\ Len(layers') = Len(layers)
          /\ \A i \in 1..Len(layers) :
               layers[i].isUploaded => layers'[i] = layers[i]]_vars

\* C14 witness: a drawn layer is being dragged and has moved while an
\* uploaded layer is in the store.
C14_Witness ==
  /\ isDragging
  /\ Dragged # 0
  /\ layers[Dragged].data # originalLayerData[1]
  /\ \E i \in 1..Len(layers) : layers[i].isUploaded

\* C15: while a drag gesture is active, after every move event the dragged
\* layer's geometry is the start-of-gesture snapshot with (move coordinate -
\* start coordinate) added to every coordinate, so a replayed move changes
\* nothing.
C15_MoveIsSnapshotPlusDelta ==
  [][\A c \in Coords :
       (HandleDrag(c) /\ isDragging /\ Dragged # 0) =>
         LET was == ItemCoords(layers[Dragged].type, originalLayerData[1])
             now == ItemCoords(layers'[Dragged].type, layers'[Dragged].data)
         IN /\ Len(now) = Len(was)
            /\ \A j \in 1..Len(was) :
                 now[j] = <<was[j][1] + c[1] - dragStartPosition[1],
                            was[j][2] + c[2] - dragStartPosition[2]>>]_vars

\* C15 witness: the second move of one gesture has been applied and the
\* layer is away from its snapshot.
C15_Witness ==
  /\ isDragging
  /\ dragCount = 2
  /\ Dragged # 0
  /\ layers[Dragged].data # originalLayerData[1]

\* the four drag fields are all set or all cleared
DragAllOrNone ==
  \/ isDragging /\ draggedLayerId # Null /\ dragStartPosition # Null
       /\ originalLayerData # Null
  \/ ~isDragging /\ draggedLayerId = Null /\ dragStartPosition = Null
       /\ originalLayerData = Null

\* C16: on drag end the gesture state is fully discarded and the layers are
\* not modified by the end event; in every reachable state the four drag
\* fields are all set or all cleared.
C16_DragEndDiscards ==
  /\ []DragAllOrNone
  /\ [][(isDragging /\ ~isDragging') =>
          /\ draggedLayerId' = Null
          /\ dragStartPosition' = Null
          /\ originalLayerData' = Null
          /\ layers' = layers]_vars

\* C16 witness: a gesture has ended and a loaded layer keeps the geometry the
\* last move gave it.
C16_Witness ==
  /\ ~isDragging
  /\ draggedLayerId = Null
  /\ dragCount > 0
  /\ \E i \in 1..Len(layers) :
       \A f \in UploadFiles : \A k \in 1..Len(f.layers[1]) : layers[i] # f.layers[1][k]

\* the current feed payload is a non-empty array
FeedHasNodes == socketData.kind = "array" /\ Len(socketData.items) > 0

\* C17: the overlay is either absent or built wholesale from the current
\* feed payload: as many items as the payload has records, item i carrying
\* the position and the record of feed record i.
C17_OverlayFromOnePayload ==
  networkNodesLayer # Null =>
    /\ socketData.kind = "array"
    /\ Len(networkNodesLayer.data) = Len(socketData.items)
    /\ \A i \in 1..Len(socketData.items) :
         /\ networkNodesLayer.data[i].position =
              <<socketData.items[i].longitude, socketData.items[i].latitude>>
         /\ networkNodesLayer.data[i].node = socketData.items[i]

\* C17 witness: the overlay holds the two records of a payload whose first
\* record is not the record of lowest id.
C17_Witness ==
  /\ networkNodesLayer # Null
  /\ Len(networkNodesLayer.data) = 2
  /\ networkNodesLayer.data[1].node.userId > networkNodesLayer.data[2].node.userId

\* C18 as stated: the overlay and the connection lines are in the render set
\* if and only if the current feed payload is a non-empty array.
C18_RenderedIffFeedHasNodes ==
  /\ OverlayRendered <=> FeedHasNodes
  /\ LinesRendered <=> FeedHasNodes

\* C18 as the code has it: for an absent, empty or non-array payload both
\* are absent; for a non-empty array the overlay is rendered exactly when
\* the network layer is visible, and the connection lines exactly when some
\* node lists a connected id that is the id of a record of the payload.
C18_RenderedWhenVisibleAndLinked ==
  /\ ~FeedHasNodes => (~OverlayRendered /\ ~LinesRendered)
  /\ FeedHasNodes =>
       /\ OverlayRendered <=> networkLayerState.visible
       /\ LinesRendered <=>
            \E i, j \in 1..Len(socketData.items) :
              \E k \in 1..Len(socketData.items[i].connectedNodeIds) :
                socketData.items[i].connectedNodeIds[k] = socketData.items[j].userId

\* C18 witness: a non-empty payload is displayed as overlay while no
\* connection line is rendered.
C18_Witness == FeedHasNodes /\ OverlayRendered /\ ~LinesRendered

\* C19: after the socket closed or failed, the overlay is absent from the
\* render set until a new payload arrives.
C19_NoOverlayAfterDisconnect == feedLost => ~OverlayRendered

\* the lowest index of a feed record at the coordinate, 0 if there is none
FirstNodeAt(coordinate) ==
  IF ~FeedHasNodes THEN 0
  ELSE LET at(i) == <<socketData.items[i].longitude, socketData.items[i].latitude>>
                      = coordinate
       IN IF \E i \in 1..Len(socketData.items) : at(i)
          THEN CHOOSE i \in 1..Len(socketData.items) :
                 at(i) /\ \A j \in 1..(i - 1) : ~at(j)
          ELSE 0

\* the hover is over an overlay item and reports the position of some item
HoverOnNode(info) ==
  /\ info.object
  /\ info.layerId.base = NetworkNodesId
  /\ FirstNodeAt(info.coordinate[1]) # 0

\* C20 as stated: when a hover over an overlay item reports the position of
\* overlay item i, the tooltip shows feed record i (the lowest such index).
C20_TooltipShowsRecord ==
  [][\A info \in HoverInfos :
       (HandleMouseMove(info) /\ HoverOnNode(info)) =>
         /\ tooltipInfo' # Null
         /\ tooltipInfo'.layer.data =
              <<socketData.items[FirstNodeAt(info.coordinate[1])]>>]_vars

\* C20 as the code has it: the same, while the draw mode is none.
C20_TooltipShowsRecordWhenIdle ==
  [][\A info \in HoverInfos :
       (HandleMouseMove(info) /\ HoverOnNode(info) /\ drawMode = "none") =>
         /\ tooltipInfo' # Null
         /\ tooltipInfo'.layer.data =
              <<socketData.items[FirstNodeAt(info.coordinate[1])]>>]_vars

\* C20 witness: two records share a position and the tooltip shows the first.
C20_Witness ==
  /\ FeedHasNodes
  /\ Len(socketData.items) = 2
  /\ FirstNodeAt(<<socketData.items[2].longitude, socketData.items[2].latitude>>) = 1
  /\ tooltipInfo # Null
  /\ tooltipInfo.layer.id = NetworkNodesId
  /\ tooltipInfo.layer.data = <<socketData.items[1]>>

\* C21: a hover over the overlay that reports a coordinate matching no
\* overlay item leaves no tooltip shown: from every reachable state, such a
\* hover event ends with the tooltip empty.
C21_NoTooltipOnMiss ==
  \A info \in HoverInfos :
    (info.object /\ info.layerId.base = NetworkNodesId
       /\ FirstNodeAt(info.coordinate[1]) = 0)
    => ENABLED (HandleMouseMove(info) /\ tooltipInfo' = Null)

\* the class a signal-to-noise ratio falls in, by the strict thresholds
ClassOfSnr(snr) ==
  IF snr > 20 THEN "excellent"
  ELSE IF snr > 15 THEN "good"
  ELSE IF snr > 10 THEN "fair"
  ELSE "poor"

\* the class a render colour stands for
ClassOfColor(color) ==
  CHOOSE class \in DOMAIN SignalColors : SignalColors[class] = color

\* C22: every rendered overlay item has the colour of the class of its
\* signal-to-noise ratio by the strict thresholds 20, 15 and 10, and the
\* circle and the icon display mode give the item the same class.
C22_ColourClassBySignal ==
  \A i \in 1..Len(OverlayColors) :
    /\ ClassOfColor(OverlayColors[i]) = ClassOfSnr(socketData.items[i].snr)
    /\ ClassOfColor(getFillColor(networkNodesLayer.data[i]))
         = ClassOfColor(getColor(networkNodesLayer.data[i]))

\* C22 witness: in circle mode a node of ratio exactly 20 is rendered good
\* next to a node of ratio 21 rendered excellent.
C22_Witness ==
  /\ OverlayRendered
  /\ networkNodesLayer.pointDisplayMode = "circle"
  /\ socketData.items[1].snr = 20
  /\ socketData.items[2].snr = 21
  /\ OverlayColors = <<SignalColors.good, SignalColors.excellent>>

\* the (node index, list index) pairs of the feed snapshot whose connected id
\* is the id of some record of the snapshot
LinkedPairs ==
  IF ~FeedHasNodes THEN {}
  ELSE {p \in (1..Len(socketData.items)) \X (1..MaxLinks + 1) :
          /\ p[2] <= Len(socketData.items[p[1]].connectedNodeIds)
          /\ \E j \in 1..Len(socketData.items) :
               socketData.items[j].userId = socketData.items[p[1]].connectedNodeIds[p[2]]}

\* the n-th linked pair, by node and then by place in the node's list
LinkedPair(n) ==
  CHOOSE p \in LinkedPairs :
    Cardinality({q \in LinkedPairs :
                   q[1] < p[1] \/ (q[1] = p[1] /\ q[2] < p[2])}) = n - 1

\* C23: the connection segments of a feed snapshot are one segment per
\* (node, connected id) pair whose id is the id of a record of the snapshot,
\* from the node's position to the position of a record with that id; an id
\* no record has gives no segment.
C23_SegmentPerLinkedPair ==
  /\ Len(connectionLines) = Cardinality(LinkedPairs)
  /\ \A n \in 1..Len(connectionLines) :
       LET node == socketData.items[LinkedPair(n)[1]]
           connectedId == node.connectedNodeIds[LinkedPair(n)[2]]
           line == connectionLines[n]
       IN /\ line.path[1] = <<node.longitude, node.latitude>>
          /\ \E j \in 1..Len(socketData.items) :
               /\ socketData.items[j].userId = connectedId
               /\ line.path[2] = <<socketData.items[j].longitude,
                                   socketData.items[j].latitude>>
          /\ line.fromUserId = node.userId
          /\ line.toUserId = connectedId

\* C23 witness: the second node lists an id twice and the first node lists an
\* id no record has; two segments are rendered.
C23_Witness ==
  /\ FeedHasNodes
  /\ socketData.items[1].connectedNodeIds = <<9>>
  /\ socketData.items[2].connectedNodeIds = <<1, 1>>
  /\ Len(connectionLines) = 2

\* a step that changes the feed: its payload, connection flag or socket state
FeedStep == socketVars' # socketVars

\* no stored layer is the overlay
NoOverlayInStore ==
  \A i \in 1..Len(layers) : layers[i].id # NetworkNodesId

\* C24: a feed update (a payload, a connect or a disconnect) leaves the layers,
\* the drawing session, the drag gesture and the viewport unchanged, and the
\* overlay is never one of the stored layers.
C24_FeedStepFrame ==
  /\ []NoOverlayInStore
  /\ [][FeedStep => UNCHANGED <<layers, sessionVars, dragVars, viewState>>]_vars

\* C24 witness: the overlay is displayed and the socket has closed while a
\* stored layer is being dragged, the line tool is armed and the map is zoomed.
C24_Witness ==
  /\ FeedHasNodes
  /\ feedLost
  /\ isDragging
  /\ Len(layers) = 1
  /\ drawMode = "line"
  /\ viewState.zoom > InitialZoom

\* the step keeps the number and the order of the layers, every layer whose
\* id is not layerId, and every field but `field` of the layers whose id it is
OnlyFieldOf(layerId, field) ==
  /\ Len(layers') = Len(layers)
  /\ \A i \in 1..Len(layers) :
       /\ layers'[i].id = layers[i].id
       /\ layers[i].id # layerId => layers'[i] = layers[i]
       /\ DOMAIN layers'[i] = DOMAIN layers[i]
       /\ \A f \in DOMAIN layers[i] \ {field} : layers'[i][f] = layers[i][f]

\* the step is OnlyFieldOf and leaves `value` in the field
FieldSetTo(layerId, field, value) ==
  /\ OnlyFieldOf(layerId, field)
  /\ \A i \in 1..Len(layers) : layers[i].id = layerId => layers'[i][field] = value

\* C25: each layer list command (toggle visibility, change colour, rename,
\* move to folder, change icon, radius, display mode, icon type) changes
\* exactly the named field of the layer with the given id: every other field
\* of it, every other layer, the order and the number of layers are
\* unchanged, and with an id no layer has nothing changes.
C25_CommandChangesOneField ==
  [][\A id \in CommandIds :
       /\ ToggleLayerVisibility(id) =>
            /\ OnlyFieldOf(id, "visible")
            /\ \A i \in 1..Len(layers) :
                 layers[i].id = id => layers'[i].visible = ~layers[i].visible
       /\ ChangeLayerColor(id, "#123456") => FieldSetTo(id, "color", "#123456")
       /\ ChangeLayerName(id, <<"Renamed", 0>>) => FieldSetTo(id, "name", <<"Renamed", 0>>)
       /\ \A folderName \in {"untitled", "uploaded", "custom"} :
            MoveLayerToFolder(id, folderName) => FieldSetTo(id, "folder", folderName)
       /\ ChangeLayerIcon(id, "mdi:star") => FieldSetTo(id, "icon", "mdi:star")
       /\ ChangeLayerRadius(id, Fin(20)) => FieldSetTo(id, "radius", Fin(20))
       /\ ChangePointDisplayMode(id, "icon") => FieldSetTo(id, "pointDisplayMode", "icon")
       /\ ChangeIconType(id, "pin") => FieldSetTo(id, "iconType", "pin")]_vars

\* C25 witness: of three imported layers the second has been recoloured and
\* the others keep their colours.
C25_Witness ==
  /\ Len(layers) = 3
  /\ commandCount = 1
  /\ layers[2].color = "#123456"
  /\ layers[1].color = "#ff0000"
  /\ layers[3].color = "#0000ff"

\* C26: the kind and the origin (drawn or uploaded) of a layer never change
\* between its creation and its removal: every step leaves the type and the
\* isUploaded flag of every layer that is stored before and after it.
C26_KindAndOriginFixed ==
  [][\A i \in 1..Len(layers), j \in 1..Len(layers') :
       layers'[j].id = layers[i].id =>
         /\ layers'[j].type = layers[i].type
         /\ layers'[j].isUploaded = layers[i].isUploaded]_vars

\* C26 witness: a drawn distance layer has been moved to the folder of the
\* uploaded layers and drag-translated, and is still a drawn distance layer.
C26_Witness ==
  /\ Len(layers) = 1
  /\ layers[1].type = "distance"
  /\ ~layers[1].isUploaded
  /\ layers[1].folder = "uploaded"
  /\ dragCount = 1
  /\ layers[1].data[1].path[1] = <<100, 0>>

\* C27: in every reachable state every stored layer has at least one
\* geometry item.
C27_NoEmptyLayer ==
  \A i \in 1..Len(layers) : Len(layers[i].data) >= 1

\* C28: in every reachable state no two stored layers have the same id.
C28_LayerIdsDistinct ==
  \A i, j \in 1..Len(layers) : layers[i].id = layers[j].id => i = j

\* the kinds whose layers carry a measurement
MeasuredKinds == {"sector", "distance", "area", "azimuth"}

\* C29: a layer has a measurement exactly if it was drawn with kind sector,
\* distance, area or azimuth; the measurement is there from the commit on, and
\* no later step (a command of the layer row, a drag-translate) changes it.
C29_MeasurementFixedAtCommit ==
  /\ [](\A i \in 1..Len(layers) :
          layers[i].measurement # Null
            <=> (~layers[i].isUploaded /\ layers[i].type \in MeasuredKinds))
  /\ [][\A i \in 1..Len(layers), j \in 1..Len(layers') :
          layers'[j].id = layers[i].id =>
            layers'[j].measurement = layers[i].measurement]_vars

\* C29 witness: a distance layer was renamed and drag-translated; its
\* measurement is still the one of the path it was committed with.
C29_Witness ==
  /\ Len(layers) = 1
  /\ layers[1].type = "distance"
  /\ layers[1].name = <<"Renamed", 0>>
  /\ dragCount = 1
  /\ layers[1].measurement # Null
  /\ layers[1].measurement.args # Flatten(layers[1].data[1].path)

\* C30: the "Cancel drawing" button, pressed in any state that shows it, leaves
\* the mode none, the vertices empty, the sector centre, radius and start angle
\* unset and the cursor cleared (no pointer coordinate, no near-close point),
\* and leaves the layer list as it was.
C30_CancelClearsSession ==
  [][CancelDrawing =>
       /\ drawMode' = "none"
       /\ drawingPoints' = <<>>
       /\ sectorCenter' = Null /\ sectorRadius' = 0 /\ sectorStartAngle' = 0
       /\ mousePosition' = Null /\ hoveredPoint' = Null
       /\ layers' = layers]_vars

\* a step between two states that differ only in the cursor and the highlighted
\* vertex
HoverStep ==
  /\ hoverVars' # hoverVars
  /\ UNCHANGED <<layers, sessionVars, dragVars, viewState, layerIdCounter, clickZoom,
                 gesture, clickCount, dragCount, overlayVars, customFolders,
                 commandCount, prefVars, storage, saveTimer>>

\* values a click at `coordinate` can leave in the layer list, the mode, the
\* vertices and the sector fields; ClickLeaves says which of them it does leave
ClickValues(coordinate) ==
  LET newPoints == Append(drawingPoints, coordinate)
      sector == IF sectorCenter = Null THEN {}
                ELSE LET endAngle == Atan2(coordinate[2] - sectorCenter[2],
                                           coordinate[1] - sectorCenter[1])
                     IN {SectorLayer(createSectorPolygon(sectorCenter, sectorRadius,
                                                         sectorStartAngle, endAngle),
                                     endAngle)}
      newLayers == {PointLayer(coordinate), PolygonLayer(ClosedPoints(newPoints)),
                    AreaLayer(ClosedPoints(newPoints)), LineLayer(newPoints),
                    DistanceLayer(newPoints), AzimuthLayer(newPoints)} \cup sector
  IN [layers |-> {layers} \cup {Append(layers, newLayer) : newLayer \in newLayers},
      drawMode |-> {drawMode, "none"},
      drawingPoints |-> {drawingPoints, newPoints, <<>>},
      sectorCenter |-> {sectorCenter, coordinate, Null},
      sectorRadius |-> {sectorRadius, 0}
                       \cup (IF sectorCenter = Null THEN {}
                             ELSE {PlanarDistance(coordinate, sectorCenter)}),
      sectorStartAngle |-> {sectorStartAngle, 0}
                           \cup (IF sectorCenter = Null THEN {}
                                 ELSE {Atan2(coordinate[2] - sectorCenter[2],
                                             coordinate[1] - sectorCenter[1])})]

ClickLeaves(coordinate, field, value) ==
  ENABLED (/\ HandleMapClick(coordinate)
           /\ CASE field = "layers" -> layers' = value
                [] field = "drawMode" -> drawMode' = value
                [] field = "drawingPoints" -> drawingPoints' = value
                [] field = "sectorCenter" -> sectorCenter' = value
                [] field = "sectorRadius" -> sectorRadius' = value
                [] field = "sectorStartAngle" -> sectorStartAngle' = value)

\* C31: the hover state does not influence a click: before and after any hover
\* event, a click at the same coordinate leaves the same layer list, mode,
\* vertices and sector fields.
C31_ClickIgnoresHover ==
  [][(HoverStep /\ clickCount < MaxClicks) =>
       \A coordinate \in HoverClicks :
         LET values == ClickValues(coordinate)
         IN \A field \in DOMAIN values :
              \E value \in values[field] :
                 /\ ClickLeaves(coordinate, field, value)
                 /\ ClickLeaves(coordinate, field, value)']_vars

\* C31 witness: a polygon was closed by a click made while the first vertex was
\* highlighted (nothing sets the highlight after the close).
C31_Witness ==
  /\ Len(layers) = 1
  /\ layers[1].type = "polygon"
  /\ drawMode = "none"
  /\ hoveredPoint # Null

\* a ring is being drawn, it has the two vertices the closing test asks for, and
\* a further click is within the click bound
RingOpen == drawMode \in RingModes /\ Len(drawingPoints) >= 2 /\ clickCount < MaxClicks

\* C32: hover and click apply the same tolerance test: while a ring with at
\* least 2 vertices is being drawn, at any zoom of the viewport, hovering at p
\* highlights the first vertex exactly if a click at p would close the ring.
C32_HoverAgreesWithClick ==
  RingOpen =>
    \A p \in Coords :
      ENABLED (HandleMouseMove(BareHover(p)) /\ hoveredPoint' # Null)
        <=> ENABLED (HandleMapClick(p) /\ drawMode' = "none")

\* C33: in polygon or area mode a click closes the ring exactly if at least 2
\* vertices are accumulated and the click is strictly within the tolerance
\* 0.05 * max(0.1, 1 / 2^(zoom - 5)) of the first vertex, zoom being the zoom
\* of the viewport; any other click is appended and the mode stays.  The
\* tolerance is never below 0.005 degrees and does not grow with the zoom.
C33_RingClosesWithinTolerance ==
  /\ [][\A c \in Coords :
          (HandleMapClick(c) /\ drawMode \in RingModes) =>
            IF /\ Len(drawingPoints) >= 2
               /\ WithinTolerance(c, drawingPoints[1], viewState.zoom)
            THEN /\ Len(layers') = Len(layers) + 1
                 /\ drawMode' = "none"
                 /\ drawingPoints' = <<>>
            ELSE /\ drawingPoints' = Append(drawingPoints, c)
                 /\ drawMode' = drawMode
                 /\ layers' = layers]_vars
  /\ [](\A zoom \in 0..MaxZoom :
          /\ 2 * Tolerance2(zoom) >= (2 * 5 * DegScale) \div 1000
          /\ zoom < MaxZoom => Tolerance2(zoom + 1) <= Tolerance2(zoom))

\* bounding-box spans on both sides of every threshold of the zoom table, in
\* coordinate units
FocusSpans == {0, 9, 10, 99, 100, 999, 1000, 4999, 5000, 19999, 20000, 99999, 100000}

\* the stored layers, each as a point layer and as a line layer
FocusVariants ==
  {[layers[i] EXCEPT !.type = type] : i \in 1..Len(layers), type \in {"point", "line"}}

\* the levels the padding correction takes off
Padding(layer) == IF layer.type = "point" /\ Len(layer.data) > 1 THEN 2 ELSE 1

SetMin(S) == CHOOSE x \in S : \A y \in S : x <= y
SetMax(S) == CHOOSE x \in S : \A y \in S : x >= y

\* an id no stored layer has
UnknownId == [n |-> MaxClicks + 100, t |-> 0]

\* C34: focus-on-layer on a layer with coordinates sets the center to the
\* midpoint of their bounding box and pitch and bearing to 0; its zoom does not
\* grow with the span, is lower for an uploaded layer than for a drawn one of
\* the same geometry, and is a zoom fixed by span and origin less 2 for a point
\* layer of several items and less 1 otherwise; an unknown id changes nothing.
C34_FocusFitsBoundingBox ==
  /\ [][\A i \in 1..Len(layers) :
          (/\ FocusOnLayer(layers[i].id)
           /\ FindLayer(layers[i].id) = i
           /\ LayerCoords(layers[i]) # {}) =>
            LET lngs == {c[1] : c \in LayerCoords(layers[i])}
                lats == {c[2] : c \in LayerCoords(layers[i])}
                span == Max2(SetMax(lngs) - SetMin(lngs), SetMax(lats) - SetMin(lats))
            IN /\ viewState'.longitude = Fin((SetMin(lngs) + SetMax(lngs)) \div 2)
               /\ viewState'.latitude = Fin((SetMin(lats) + SetMax(lats)) \div 2)
               /\ viewState'.pitch = 0 /\ viewState'.bearing = 0
               /\ viewState'.zoom = FocusZoom(layers[i], span)]_vars
  /\ [](\A a \in FocusVariants, d \in FocusSpans :
          /\ \A e \in FocusSpans : d <= e => FocusZoom(a, e) <= FocusZoom(a, d)
          /\ FocusZoom([a EXCEPT !.isUploaded = TRUE], d)
               < FocusZoom([a EXCEPT !.isUploaded = FALSE], d)
          /\ Len(a.data) > 1 =>
               FocusZoom(a, d) + Padding(a)
                 = FocusZoom([a EXCEPT !.type = "line"], d) + 1)
  /\ [](~ ENABLED (FocusOnLayer(UnknownId) /\ vars' # vars))

\* C34 witness: the viewport after the focus on a point layer of two items one
\* degree apart: on their midpoint, two levels under the zoom of that span.
C34_Witness ==
  /\ \E i \in 1..Len(layers) :
       layers[i].type = "point" /\ Len(layers[i].data) = 2 /\ ~layers[i].isUploaded
  /\ viewState = [longitude |-> Fin(5000), latitude |-> Fin(5000), zoom |-> 9,
                  pitch |-> 0, bearing |-> 0]

\* C35: the rubber-band selection is active only during a drag-select gesture:
\* flag, start and end are set together by a gesture start, which is accepted
\* only in mode none, and cleared together by the gesture end, which also puts
\* the viewport on the midpoint of start and end with pitch and bearing 0; an
\* end event with no active selection changes nothing.
C35_SelectionOnlyDuringGesture ==
  /\ [](/\ isRubberBandZooming <=> rubberBandStart # Null
        /\ isRubberBandZooming <=> rubberBandEnd # Null)
  /\ [][\A c \in Coords :
          (HandleRubberBandStart(c) /\ drawMode = "none") =>
            isRubberBandZooming' /\ rubberBandStart' = c /\ rubberBandEnd' = c]_vars
  /\ [][(HandleRubberBandEnd /\ isRubberBandZooming) =>
          /\ ~isRubberBandZooming' /\ rubberBandStart' = Null /\ rubberBandEnd' = Null
          /\ viewState'.longitude = Fin((rubberBandStart[1] + rubberBandEnd[1]) \div 2)
          /\ viewState'.latitude = Fin((rubberBandStart[2] + rubberBandEnd[2]) \div 2)
          /\ viewState'.pitch = 0 /\ viewState'.bearing = 0]_vars
  /\ [][isRubberBandZooming' # isRubberBandZooming =>
          \/ \E c \in Coords : HandleRubberBandStart(c) /\ drawMode = "none"
          \/ HandleRubberBandEnd]_vars
  /\ [](drawMode # "none" =>
          \A c \in Coords : ~ ENABLED (HandleRubberBandStart(c) /\ vars' # vars))
  /\ [](~isRubberBandZooming => ~ ENABLED (HandleRubberBandEnd /\ vars' # vars))

\* C35 witness: a selection from (0, 0) to (1, 1) has ended: nothing of it is
\* left and the viewport sits on its midpoint.
C35_Witness ==
  /\ ~isRubberBandZooming /\ rubberBandStart = Null /\ rubberBandEnd = Null
  /\ viewState.longitude = Fin(5000) /\ viewState.latitude = Fin(5000)
  /\ viewState.pitch = 0 /\ viewState.bearing = 0

\* what a load of `content` leaves behind: each piece the content holds is
\* the saved value, each piece it lacks is as before
Loaded(content) ==
  /\ viewState' = IF content.viewState # Null THEN content.viewState[1] ELSE viewState
  /\ layers' = IF content.layers # Null THEN content.layers[1] ELSE layers
  /\ folderNames' = IF content.folderNames # Null
                    THEN content.folderNames[1] ELSE folderNames
  /\ collapsedSections' = IF content.collapsedSections # Null
                          THEN content.collapsedSections[1] ELSE collapsedSections
  /\ mapStyle' = IF content.mapStyle # Null THEN content.mapStyle[1] ELSE mapStyle

\* C36: loading a snapshot, from localStorage or from a data file, replaces
\* each of viewport, layers, group labels, collapsed-section flags and map style
\* with the saved value when the snapshot holds that piece and leaves each piece
\* it lacks unchanged; with no snapshot, or one that does not parse, the load
\* changes no state at all.
C36_LoadReplacesPresentPieces ==
  /\ [][(LoadPreferences /\ storage # Null /\ storage # Unparseable) =>
          Loaded(storage)]_vars
  /\ [][\A file \in PrefFiles \ {Unparseable} : UploadData(file) => Loaded(file)]_vars
  /\ []((storage = Null \/ storage = Unparseable) =>
          ~ ENABLED (LoadPreferences /\ vars' # vars))
  /\ [](~ ENABLED (UploadData(Unparseable) /\ vars' # vars))

\* a partial snapshot was loaded into a session with a layer and a renamed
\* folder: the viewport and the flags are the saved ones, the rest is the
\* session's
C36_Witness ==
  /\ storage = PrefFile({"viewState", "collapsedSections"})
  /\ viewState = SavedSnapshot.viewState
  /\ collapsedSections = SavedSnapshot.collapsedSections
  /\ Len(layers) = 1 /\ layers # SavedSnapshot.layers
  /\ folderNames = SavedSnapshot.folderNames
  /\ mapStyle = SavedSnapshot.mapStyle

\* C37: once the debounce interval has elapsed with no further change, the
\* layers of the persisted snapshot are the current layer list (no snapshot
\* counting as one without layers), also after the last layer was removed.
C37_SettledSnapshotHasCurrentLayers ==
  saveTimer = Null =>
    IF storage = Null THEN layers = <<>> ELSE storage.layers = <<layers>>

C39_HighlightOnlyOverOpenRing ==
  hoveredPoint # Null =>
    /\ drawMode \in RingModes
    /\ Len(drawingPoints) >= 2
    /\ hoveredPoint = drawingPoints[1]

\* the value the claim calls the message's `nodes`: undefined when the parsed
\* value has none
NodesValue(message) == IF message.nodes = JsThrows THEN JsUndefined ELSE message.nodes

\* what the feed shows: the data, the connection flag and the overlay
FeedShown == <<socketData, isConnected, networkNodesLayer>>

\* C40 as stated: a message that is not parseable JSON leaves the feed data, the
\* connection flag and the overlay as they were, and every parseable message
\* replaces the feed data with the message's `nodes` value, whatever its type.
C40_EveryParseableMessageReplaces ==
  \A message \in FeedMessages :
    readyState = "open" =>
      IF message.parses
      THEN ENABLED (OnMessage(message) /\ socketData' = NodesValue(message))
      ELSE ~ ENABLED (OnMessage(message) /\ FeedShown' # FeedShown)

\* C40: a message that is not parseable JSON, or that parses to null, leaves
\* the feed data, the connection flag and the overlay as they were; every other
\* parseable message replaces the feed data with the message's `nodes` value,
\* whatever its type, and leaves the connection flag alone.
C40_ReadableMessageReplaces ==
  \A message \in FeedMessages :
    readyState = "open" =>
      IF message.parses /\ message.nodes # JsThrows
      THEN ENABLED (/\ OnMessage(message)
                    /\ socketData' = message.nodes
                    /\ isConnected' = isConnected)
      ELSE /\ ENABLED OnMessage(message)
           /\ ~ ENABLED (OnMessage(message) /\ FeedShown' # FeedShown)

\* the feed data is a `nodes` value that is no array, taken from a message, and
\* the socket is open for the next message
C40_Witness ==
  /\ readyState = "open"
  /\ socketData = JsObject
  /\ networkNodesLayer = Null

====
